---- MODULE Spec2Model ----
(***************************************************************************)
(* Model of the Deployment Provisioner of telepresence                     *)
(* (src/telepresence/proxy/deployment.py): existing_deployment,            *)
(* existing_deployment_openshift, create_new_deployment,                   *)
(* supplant_deployment, swap_deployment_openshift and the shared           *)
(* new_swapped_deployment transform, together with the cleanup registry    *)
(* they register their rollback actions on.                                *)
(*                                                                         *)
(* One behaviour is one session: Init fixes the session's inputs and the   *)
(* cluster's pre-session state, the provisioning function runs one source  *)
(* statement per step, and the session ends by unwinding the cleanup       *)
(* registry.  Every external command may fail (Faults); a failed command   *)
(* leaves the cluster as it was.                                           *)
(***************************************************************************)
EXTENDS Integers, Sequences, FiniteSets, TLC

VARIABLES
    cfg,              \* the arguments of the provisioning call (never change)
    pre,              \* the original workload as it was before the session
    pc,               \* position in the provisioning function
    workload,         \* cluster: the original Deployment / DeploymentConfig
    derived,          \* cluster: the derived Deployment of native supplant ({} = absent)
    objs,             \* cluster: Services and Deployments seen by create_new_deployment
    expose,           \* PortMapping: the set of remote-exposed ports
    cleanups,         \* runner.add_cleanup registry, in registration order
    cmds,             \* every external command issued so far, in order
    deployment_json,  \* local of supplant_deployment / dc_json of the OpenShift variant
    dc_json_with_triggers, \* local of swap_deployment_openshift
    container,        \* local: the name of the container to update
    new_deployment_json,   \* local: result of new_swapped_deployment
    result,           \* outcome of the provisioning call
    ui,               \* unwinding: index of the next cleanup to run
    pass,             \* unwinding: 0 while provisioning, then the number of the pass
    faults,           \* number of external commands the environment has failed
    exclusions,       \* entrypoint proxy(): the exclusions list
    scan,             \* entrypoint proxy(): netstat lines already looked at
    procs,            \* entrypoint proxy(): the background processes
    now,              \* entrypoint: time(), in ticks
    start,            \* entrypoint wait(): the value of time() at its start
    lookup            \* entrypoint wait(): the latest gethostbyname attempt

vars == <<cfg, pre, pc, workload, derived, objs, expose, cleanups, cmds,
          deployment_json, dc_json_with_triggers, container,
          new_deployment_json, result, ui, pass, faults,
          exclusions, scan, procs, now, start, lookup>>

\* the clock and what wait() has done
clock == <<now, start, lookup>>

\* the state of local-docker/entrypoint.py, which the provisioner leaves alone
entry == <<exclusions, scan, procs, clock>>

cluster == <<workload, derived, objs>>
locals == <<deployment_json, dc_json_with_triggers, container, new_deployment_json>>

-----------------------------------------------------------------------------
(* Bounds of the model *)

\* external commands the environment may fail in one session
MaxFaults == 2
\* largest replica count of the original workload
MaxReplicas == 2
\* how many times the registered cleanups are run (the second run is the
\* "rollback twice" scenario)
MaxPasses == 2

\* longest workload name and longest session id given to new_name
MaxNameLen == 64
MaxRunIdLen == 51

\* most lines of one netstat output
MaxLines == 2

\* longest time one gethostbyname call takes, in ticks
MaxLookupTicks == 3

\* the horizon of the clock, in ticks
MaxTicks == 400

(* Program constants *)

\* the platform's object-name limit quoted by supplant_deployment
NameLimit == 63

\* kubectl's object-name budget used by supplant_deployment
NameWidth == 50
\* ports below this are privileged (get_image_name / has_privileged_ports)
PrivilegedBelow == 1024

\* a tick of the clock is the 0.1 s of the retry sleep
TicksPerSecond == 10
RetrySleep == 1

\* while time() - start < 30
CeilingSeconds == 30
Ceiling == CeilingSeconds * TicksPerSecond

\* sleep(1)
SettleSeconds == 1

\* sys.exit(100)
ReadyCode == 100

-----------------------------------------------------------------------------
(* Values *)

TELEPRESENCE_REMOTE_IMAGE == "telepresence-k8s"
TELEPRESENCE_REMOTE_IMAGE_OCP == "telepresence-ocp"
TELEPRESENCE_REMOTE_IMAGE_PRIV == "telepresence-k8s-priv"

Unneeded == {"args", "livenessProbe", "readinessProbe", "workingDir", "lifecycle"}

\* what a command the environment fails writes to stderr
StderrTexts == {"Forbidden"}

TelLabel(run_id) == <<"telepresence", run_id>>

TcpPort(p) == [containerPort |-> p, protocol |-> "TCP"]
UdpPort(p) == [containerPort |-> p, protocol |-> "UDP"]

Cont(name, ports, fields) ==
    [name |-> name, image |-> "app-image", ports |-> ports, fields |-> fields,
     imagePullPolicy |-> "Always", command |-> "original",
     terminationMessagePolicy |-> "File", env |-> <<>>]

\* the pod templates the original workload may have
ContainerLists ==
    { <<>>,
      <<Cont("app", {TcpPort(8080)}, {})>>,
      <<Cont("app", {TcpPort(80), UdpPort(53)}, Unneeded), Cont("side", {}, {"args"})>>,
      <<Cont("side", {TcpPort(9090)}, {"lifecycle"}), Cont("app", {}, {"args", "workingDir"})>> }

NoJson == [name |-> "", replicas |-> 0, triggers |-> {}, labels |-> {},
           podLabels |-> {}, serviceAccountName |-> "", containers |-> <<>>]

\* no gethostbyname attempt yet
NoLookup == [at |-> 0, end |-> 0, res |-> ""]

NoResult == [status |-> "running", exc |-> "", msg |-> <<>>, name |-> "", run_id |-> ""]

Failure(exc, msg) ==
    [status |-> "failed", exc |-> exc, msg |-> msg, name |-> "", run_id |-> ""]

Success(name, run_id) ==
    [status |-> "ok", exc |-> "", msg |-> <<>>, name |-> name, run_id |-> run_id]

\* the names of the cleanup functions registered so far
Registered == {cleanups[i].fn : i \in 1..Len(cleanups)}

\* One entry of the command log: the kubectl verb, its argument, how it ended
\* ("ok", or the stderr of the failed command: one of StderrTexts when the
\* environment failed it, another text when the cluster rejected what was
\* asked), the unwinding pass it ran in (0 = provisioning), the cleanups
\* registered when it was issued and whether it changed the cluster.
Cmd(name, arg, res, changed) ==
    [cmd |-> name, arg |-> arg, res |-> res, pass |-> pass,
     regs |-> Registered, changed |-> changed]

\* The stderr texts with which the environment may fail the next external
\* command ("" = it does not fail it).
FaultChoices == IF faults < MaxFaults THEN {""} \cup StderrTexts ELSE {""}

Bump(f) == IF f = "" THEN faults ELSE faults + 1

RECURSIVE SortedAsc(_)
\* Variant: sorted(ports), without reverse=True
SortedAsc(S) ==
    IF S = {} THEN <<>>
    ELSE LET m == CHOOSE x \in S : \A y \in S : x <= y
         IN <<m>> \o SortedAsc(S \ {m})

RECURSIVE SortedDesc(_)
\* sorted(ports, reverse=True)
SortedDesc(S) ==
    IF S = {} THEN <<>>
    ELSE LET m == CHOOSE x \in S : \A y \in S : y <= x
         IN <<m>> \o SortedDesc(S \ {m})

-----------------------------------------------------------------------------
(* PortMapping (telepresence.cli) *)

merge_automatic_ports(exp, ports) == exp \cup ports

has_privileged_ports(exp) == \E p \in exp : p < PrivilegedBelow

-----------------------------------------------------------------------------
(* get_image_name *)

\* the values of TELEPRESENCE_USE_OCP_IMAGE that are not already lower case,
\* with what str.lower() makes of them
LowerCase ==
    "ALWAYS" :> "always" @@ "Yes" :> "yes" @@ "True" :> "true" @@ "ON" :> "on" @@
    "Never" :> "never" @@ "NO" :> "no" @@ "False" :> "false" @@ "Off" :> "off" @@
    "AUTO" :> "auto" @@ "Default" :> "default" @@ "Maybe" :> "maybe"

\* ocp_env_value.lower()
lower(v) == IF v \in DOMAIN LowerCase THEN LowerCase[v] ELSE v

\* os.environ.get(name, default); the environment is {} (unset) or {value}
environ_get(environ, default) ==
    IF environ = {} THEN default ELSE CHOOSE v \in environ : TRUE

\* Variant: privileged ports are looked at before the cluster is.
get_image_name_privileged_first(ocp_env_value, cluster_is_openshift, exp) ==
    LET ocp_env == lower(ocp_env_value)
    IN IF ocp_env \in {"true", "on", "yes", "1", "always"}
       THEN TELEPRESENCE_REMOTE_IMAGE_OCP
       ELSE LET ocp_image_allowed == ocp_env \notin {"false", "off", "no", "0", "never"}
            IN IF has_privileged_ports(exp)
               THEN TELEPRESENCE_REMOTE_IMAGE_PRIV
               ELSE IF ocp_image_allowed /\ cluster_is_openshift
                    THEN TELEPRESENCE_REMOTE_IMAGE_OCP
                    ELSE TELEPRESENCE_REMOTE_IMAGE

\* ocp_env_value is the result of os.environ.get(ocp_env_name, "auto"); the
\* warning shown for an unrecognised value changes nothing.
get_image_name(ocp_env_value, cluster_is_openshift, exp) ==
    LET ocp_env == lower(ocp_env_value)
    IN IF ocp_env \in {"true", "on", "yes", "1", "always"}
       THEN TELEPRESENCE_REMOTE_IMAGE_OCP
       ELSE LET ocp_image_allowed == ocp_env \notin {"false", "off", "no", "0", "never"}
            IN IF ocp_image_allowed /\ cluster_is_openshift
               THEN TELEPRESENCE_REMOTE_IMAGE_OCP
               ELSE IF has_privileged_ports(exp)
                    THEN TELEPRESENCE_REMOTE_IMAGE_PRIV
                    ELSE TELEPRESENCE_REMOTE_IMAGE

-----------------------------------------------------------------------------
(* create_new_deployment *)

\* Variant: a template whose metadata carries no session label.
get_deployment_yaml_unlabelled(name, run_id, image_name, service_account, env, annotations, labels) ==
    [name |-> name,
     labels |-> <<>>,
     matchLabels |-> <<TelLabel(run_id)>>,
     annotations |-> annotations,
     podLabelLine |-> labels \o <<TelLabel(run_id)>>,
     env |-> env,
     image |-> image_name,
     serviceAccount |-> service_account]

\* _get_deployment_yaml: the manifest, one field per placeholder of
\* _deployment_template.  The pod template's label line is the text of
\* labels_field (the user's labels joined with no separator) followed
\* directly by the session label, so it is kept as the sequence of the
\* "key: value" items that end up on that one line.
get_deployment_yaml(name, run_id, image_name, service_account, env, annotations, labels) ==
    [name |-> name,
     labels |-> <<TelLabel(run_id)>>,
     matchLabels |-> <<TelLabel(run_id)>>,
     annotations |-> annotations,
     podLabelLine |-> labels \o <<TelLabel(run_id)>>,
     env |-> env,
     image |-> image_name,
     serviceAccount |-> service_account]

Items(line) == {line[i] : i \in 1..Len(line)}

\* kubectl create -f -: a YAML line holds one "key: value" item; a line with
\* two is rejected by the parser.
YamlValid(yaml) == Len(yaml.podLabelLine) = 1

DeploymentObject(yaml) ==
    [kind |-> "deploy", name |-> yaml.name, labels |-> Items(yaml.labels),
     selector |-> Items(yaml.matchLabels), podLabels |-> Items(yaml.podLabelLine),
     ports |-> <<>>, by |-> "session"]

\* kubectl expose deployment NAME --port=...: the Service takes the labels
\* and the selector of the Deployment it exposes.
ServiceObject(d, ports) ==
    [kind |-> "svc", name |-> d.name, labels |-> d.labels,
     selector |-> d.selector, podLabels |-> {}, ports |-> ports, by |-> "session"]

\* kubectl delete --ignore-not-found svc,deploy --selector=telepresence=run_id
remove_existing_deployment(os, run_id) ==
    {o \in os : ~(o.kind \in {"svc", "deploy"} /\ TelLabel(run_id) \in o.labels)}

\* runner.add_cleanup("Delete new deployment", remove_existing_deployment)
create_new_add_cleanup ==
    /\ pc = "create_new:258"
    /\ cleanups' = Append(cleanups,
            [desc |-> "Delete new deployment", fn |-> "remove_existing_deployment",
             arg |-> cfg.run_id])
    /\ pc' = "create_new:259"
    /\ UNCHANGED <<entry, cfg, pre, cluster, expose, cmds, locals, result, ui, pass, faults>>

\* remove_existing_deployment(quiet=True)
create_new_preclean ==
    /\ pc = "create_new:259"
    /\ \E f \in FaultChoices :
         LET os == IF f = "" THEN remove_existing_deployment(objs, cfg.run_id) ELSE objs
         IN /\ objs' = os
            /\ cmds' = Append(cmds, Cmd("delete", cfg.run_id,
                                         IF f = "" THEN "ok" ELSE f, os # objs))
            /\ faults' = Bump(f)
            /\ IF f = ""
               THEN pc' = "create_new:276" /\ result' = result
               ELSE pc' = "returned" /\ result' = Failure("CalledProcessError", <<f>>)
    /\ UNCHANGED <<entry, cfg, pre, workload, derived, expose, cleanups, locals, ui, pass>>

\* the manifest is rendered and submitted with kubectl create -f -
create_new_create ==
    /\ pc = "create_new:276"
    /\ \E f \in FaultChoices :
         LET env == IF cfg.custom_nameserver # ""
                    THEN <<<<"TELEPRESENCE_NAMESERVER", cfg.custom_nameserver>>>>
                    ELSE <<>>
             yaml == get_deployment_yaml(cfg.deployment, cfg.run_id,
                        get_image_name(cfg.ocp_env, cfg.cluster_is_openshift, expose),
                        cfg.service_account, env, cfg.annotations, cfg.labels)
             exists == \E o \in objs : o.kind = "deploy" /\ o.name = yaml.name
             res == IF f # "" THEN f
                    ELSE IF ~YamlValid(yaml) THEN "error converting YAML"
                    ELSE IF exists THEN "AlreadyExists" ELSE "ok"
         IN /\ cmds' = Append(cmds, Cmd("create", yaml, res, res = "ok"))
            /\ faults' = Bump(f)
            /\ IF res = "ok"
               THEN /\ objs' = objs \cup {DeploymentObject(yaml)}
                    /\ pc' = "create_new:288"
                    /\ result' = result
               ELSE /\ objs' = objs
                    /\ pc' = "returned"
                    /\ result' = Failure("runner.fail",
                            <<"Failed to create deployment", cfg.deployment, res>>)
    /\ UNCHANGED <<entry, cfg, pre, workload, derived, expose, cleanups, locals, ui, pass>>

\* Variant: a failed expose takes the Deployment down again before failing.
create_new_expose_undoing ==
    /\ pc = "create_new:288"
    /\ IF expose # {}
       THEN \E f \in FaultChoices :
              LET ports == SortedDesc(expose)
                  d == CHOOSE o \in objs : o.kind = "deploy" /\ o.name = cfg.deployment
              IN /\ cmds' = Append(cmds, Cmd("expose", ports,
                                              IF f = "" THEN "ok" ELSE f, f = ""))
                 /\ faults' = Bump(f)
                 /\ IF f = ""
                    THEN /\ objs' = objs \cup {ServiceObject(d, ports)}
                         /\ result' = Success(cfg.deployment, cfg.run_id)
                    ELSE /\ objs' = objs \ {d}
                         /\ result' = Failure("runner.fail",
                                <<"Failed to expose deployment", cfg.deployment, f>>)
       ELSE /\ result' = Success(cfg.deployment, cfg.run_id)
            /\ UNCHANGED <<objs, cmds, faults>>
    /\ pc' = "returned"
    /\ UNCHANGED <<entry, cfg, pre, workload, derived, expose, cleanups, locals, ui, pass>>

\* if expose.remote(): kubectl expose deployment NAME --port=... ; return
create_new_expose ==
    /\ pc = "create_new:288"
    /\ IF expose # {}
       THEN \E f \in FaultChoices :
              LET ports == SortedDesc(expose)
                  d == CHOOSE o \in objs : o.kind = "deploy" /\ o.name = cfg.deployment
              IN /\ cmds' = Append(cmds, Cmd("expose", ports,
                                              IF f = "" THEN "ok" ELSE f, f = ""))
                 /\ faults' = Bump(f)
                 /\ IF f = ""
                    THEN /\ objs' = objs \cup {ServiceObject(d, ports)}
                         /\ result' = Success(cfg.deployment, cfg.run_id)
                    ELSE /\ objs' = objs
                         /\ result' = Failure("runner.fail",
                                <<"Failed to expose deployment", cfg.deployment, f>>)
       ELSE /\ result' = Success(cfg.deployment, cfg.run_id)
            /\ UNCHANGED <<objs, cmds, faults>>
    /\ pc' = "returned"
    /\ UNCHANGED <<entry, cfg, pre, workload, derived, expose, cleanups, locals, ui, pass>>

-----------------------------------------------------------------------------
(* new_swapped_deployment *)

\* d.setdefault("labels", {})[key] = value
SetLabel(labels, key, value) == {p \in labels : p[1] # key} \cup {<<key, value>>}

\* the port["containerPort"] of the ports whose protocol is TCP
TcpPorts(c) == {p.containerPort : p \in {q \in c.ports : q.protocol = "TCP"}}

\* the position of the first container named target, 0 if there is none
FindContainer(containers, target) ==
    IF \E i \in 1..Len(containers) : containers[i].name = target
    THEN CHOOSE i \in 1..Len(containers) :
            /\ containers[i].name = target
            /\ \A j \in 1..(i - 1) : containers[j].name # target
    ELSE 0

\* the fields the loop of lines 471-478 pops, in its order
UnneededList == <<"args", "livenessProbe", "readinessProbe", "workingDir", "lifecycle">>

RECURSIVE drop_until_missing(_, _)
\* Variant: one try around the whole loop, so the first absent field ends it.
drop_until_missing(fields, i) ==
    IF i > Len(UnneededList) THEN fields
    ELSE IF UnneededList[i] \in fields
         THEN drop_until_missing(fields \ {UnneededList[i]}, i + 1)
         ELSE fields

RECURSIVE drop_unneeded(_, _)
\* for unneeded in [...]: try: container.pop(unneeded) except KeyError: pass
\* (from the i-th field on)
drop_unneeded(fields, i) ==
    IF i > Len(UnneededList) THEN fields
    ELSE IF UnneededList[i] \in fields
         THEN drop_unneeded(fields \ {UnneededList[i]}, i + 1)
         ELSE drop_unneeded(fields, i + 1)

\* the body of the loop for the container that is swapped out
SwapContainer(c, image, custom_nameserver) ==
    [c EXCEPT !.image = image,
              !.imagePullPolicy = "IfNotPresent",
              !.fields = drop_unneeded(@, 1),
              !.command = "/usr/src/app/run.sh",
              !.terminationMessagePolicy = "FallbackToLogsOnError",
              !.env = @ \o (IF custom_nameserver # ""
                            THEN <<"TELEPRESENCE_NAMESERVER">> ELSE <<>>)
                        \o <<"TELEPRESENCE_CONTAINER_NAMESPACE">>]

\* Variant: with no container of that name the loop ends and the copy is
\* returned as it is.
new_swapped_deployment_silent(old_deployment, container_to_update, run_id, exp, service_account, custom_nameserver, ocp_env, is_openshift) ==
    LET i == FindContainer(old_deployment.containers, container_to_update)
        copy == [old_deployment EXCEPT
                    !.replicas = 1,
                    !.labels = SetLabel(@, "telepresence", run_id),
                    !.podLabels = SetLabel(@, "telepresence", run_id),
                    !.serviceAccountName =
                        IF service_account # "" THEN service_account ELSE @]
    IN IF i = 0
       THEN [found |-> TRUE, json |-> copy, expose |-> exp]
       ELSE LET merged == merge_automatic_ports(exp, TcpPorts(copy.containers[i]))
                image == get_image_name(ocp_env, is_openshift, merged)
            IN [found |-> TRUE,
                json |-> [copy EXCEPT !.containers[i] =
                                SwapContainer(@, image, custom_nameserver)],
                expose |-> merged]

\* Variant: the ports of the first container are merged before the container
\* to update is looked for.
new_swapped_deployment_merging_first(old_deployment, container_to_update, run_id, exp, service_account, custom_nameserver, ocp_env, is_openshift) ==
    LET i == FindContainer(old_deployment.containers, container_to_update)
        copy == [old_deployment EXCEPT
                    !.replicas = 1,
                    !.labels = SetLabel(@, "telepresence", run_id),
                    !.podLabels = SetLabel(@, "telepresence", run_id),
                    !.serviceAccountName =
                        IF service_account # "" THEN service_account ELSE @]
        first == IF Len(copy.containers) = 0 THEN exp
                 ELSE merge_automatic_ports(exp, TcpPorts(copy.containers[1]))
    IN IF i = 0
       THEN [found |-> FALSE, json |-> NoJson, expose |-> first]
       ELSE LET merged == merge_automatic_ports(first, TcpPorts(copy.containers[i]))
                image == get_image_name(ocp_env, is_openshift, merged)
            IN [found |-> TRUE,
                json |-> [copy EXCEPT !.containers[i] =
                                SwapContainer(@, image, custom_nameserver)],
                expose |-> merged]

\* Returns [found, json, expose]: found = FALSE is the RuntimeError of line
\* 502; expose is the PortMapping after the call.
new_swapped_deployment(old_deployment, container_to_update, run_id, exp, service_account, custom_nameserver, ocp_env, is_openshift) ==
    LET i == FindContainer(old_deployment.containers, container_to_update)
        copy == [old_deployment EXCEPT
                    !.replicas = 1,
                    !.labels = SetLabel(@, "telepresence", run_id),
                    !.podLabels = SetLabel(@, "telepresence", run_id),
                    !.serviceAccountName =
                        IF service_account # "" THEN service_account ELSE @]
    IN IF i = 0
       THEN [found |-> FALSE, json |-> NoJson, expose |-> exp]
       ELSE LET merged == merge_automatic_ports(exp, TcpPorts(copy.containers[i]))
                image == get_image_name(ocp_env, is_openshift, merged)
            IN [found |-> TRUE,
                json |-> [copy EXCEPT !.containers[i] =
                                SwapContainer(@, image, custom_nameserver)],
                expose |-> merged]

\* _get_container_name: "" stands for no container given; the result "" with
\* no container in the template is the IndexError of containers[0]
get_container_name(container_arg, deployment) ==
    IF container_arg # "" THEN container_arg
    ELSE IF Len(deployment.containers) = 0 THEN ""
    ELSE deployment.containers[1].name

Min(a, b) == IF a < b THEN a ELSE b

\* Variant: the name is not trimmed.
new_name_untrimmed(name, run_id) == name \o <<"-">> \o run_id

\* a negative precision is no format specification: format() raises ValueError
new_name_fails(run_id) == NameWidth - (Len(run_id) + 1) < 0

\* "{name:.{max_width}s}-{id}".format(name, id=run_id,
\*                                   max_width=(50 - (len(run_id) + 1)))
new_name(name, run_id) ==
    LET max_width == NameWidth - (Len(run_id) + 1)
    IN SubSeq(name, 1, Min(Len(name), max_width)) \o <<"-">> \o run_id

-----------------------------------------------------------------------------
(* supplant_deployment *)

\* get_deployment_json and _get_container_name
supplant_get ==
    /\ pc = "supplant:350"
    /\ \E f \in FaultChoices :
         /\ cmds' = Append(cmds, Cmd("get", cfg.deployment,
                                      IF f = "" THEN "ok" ELSE f, FALSE))
         /\ faults' = Bump(f)
         /\ IF f # ""
            THEN /\ pc' = "returned"
                 /\ result' = Failure("runner.fail",
                        <<"Failed to find deployment", cfg.deployment, f>>)
                 /\ UNCHANGED <<deployment_json, container>>
            ELSE /\ deployment_json' = workload
                 /\ container' = get_container_name(cfg.container_arg, workload)
                 /\ IF cfg.container_arg = "" /\ Len(workload.containers) = 0
                    THEN pc' = "returned" /\ result' = Failure("IndexError", <<>>)
                    ELSE pc' = "supplant:358" /\ result' = result
    /\ UNCHANGED <<entry, cfg, pre, cluster, expose, cleanups, dc_json_with_triggers,
                   new_deployment_json, ui, pass>>

\* Variant: the transform works on the fetched descriptor itself, not on a
\* copy of it.
supplant_transform_in_place ==
    /\ pc = "supplant:358"
    /\ LET r == new_swapped_deployment(deployment_json, container, cfg.run_id, expose,
                    cfg.service_account, cfg.custom_nameserver, cfg.ocp_env,
                    cfg.cluster_is_openshift)
       IN /\ expose' = r.expose
          /\ IF r.found
             THEN /\ new_deployment_json' =
                        [r.json EXCEPT !.name = new_name(deployment_json.name, cfg.run_id)]
                  /\ deployment_json' = new_deployment_json'
                  /\ pc' = "supplant:404"
                  /\ result' = result
             ELSE /\ new_deployment_json' = new_deployment_json
                  /\ deployment_json' = deployment_json
                  /\ pc' = "returned"
                  /\ result' = Failure("RuntimeError",
                        <<"Couldn't find container in the Deployment", container>>)
    /\ UNCHANGED <<entry, cfg, pre, cluster, cleanups, cmds,
                   dc_json_with_triggers, container, ui, pass, faults>>

\* new_swapped_deployment and the derived name
supplant_transform ==
    /\ pc = "supplant:358"
    /\ LET r == new_swapped_deployment(deployment_json, container, cfg.run_id, expose,
                    cfg.service_account, cfg.custom_nameserver, cfg.ocp_env,
                    cfg.cluster_is_openshift)
       IN /\ expose' = r.expose
          /\ IF r.found
             THEN /\ new_deployment_json' =
                        [r.json EXCEPT !.name = new_name(deployment_json.name, cfg.run_id)]
                  /\ pc' = "supplant:404"
                  /\ result' = result
             ELSE /\ new_deployment_json' = new_deployment_json
                  /\ pc' = "returned"
                  /\ result' = Failure("RuntimeError",
                        <<"Couldn't find container in the Deployment", container>>)
    /\ UNCHANGED <<entry, cfg, pre, cluster, cleanups, cmds, deployment_json,
                   dc_json_with_triggers, container, ui, pass, faults>>

\* kubectl delete deployment NAME [--ignore-not-found]: [derived, res]
delete_new_deployment(name, check, f) ==
    LET present == \E d \in derived : d.name = name
    IN IF f # "" THEN [derived |-> derived, res |-> f]
       ELSE IF present THEN [derived |-> {d \in derived : d.name # name}, res |-> "ok"]
       ELSE [derived |-> derived, res |-> IF check THEN "NotFound" ELSE "ok"]

\* kubectl scale deployment NAME --replicas=N: [workload, res]
resize_original(replicas, f) ==
    IF f # "" THEN [workload |-> workload, res |-> f]
    ELSE [workload |-> [workload EXCEPT !.replicas = replicas], res |-> "ok"]

\* runner.add_cleanup("Delete new deployment", delete_new_deployment, True)
supplant_add_cleanup_delete ==
    /\ pc = "supplant:404"
    /\ cleanups' = Append(cleanups,
            [desc |-> "Delete new deployment", fn |-> "delete_new_deployment",
             arg |-> TRUE])
    /\ pc' = "supplant:405"
    /\ UNCHANGED <<entry, cfg, pre, cluster, expose, cmds, locals, result, ui, pass, faults>>

\* delete_new_deployment(False)  # Just in case
supplant_delete_stale ==
    /\ pc = "supplant:405"
    /\ \E f \in FaultChoices :
         LET r == delete_new_deployment(new_deployment_json.name, FALSE, f)
         IN /\ derived' = r.derived
            /\ cmds' = Append(cmds, Cmd("delete", new_deployment_json.name, r.res,
                                         r.derived # derived))
            /\ faults' = Bump(f)
            /\ IF r.res = "ok"
               THEN pc' = "supplant:406" /\ result' = result
               ELSE pc' = "returned" /\ result' = Failure("CalledProcessError", <<r.res>>)
    /\ UNCHANGED <<entry, cfg, pre, workload, objs, expose, cleanups, locals, ui, pass>>

\* Variant: the exit status of kubectl apply is not checked.
supplant_apply_unchecked ==
    /\ pc = "supplant:406"
    /\ \E f \in FaultChoices :
         /\ cmds' = Append(cmds, Cmd("apply", new_deployment_json,
                                      IF f = "" THEN "ok" ELSE f, f = ""))
         /\ faults' = Bump(f)
         /\ derived' = IF f = "" THEN {new_deployment_json} ELSE derived
         /\ pc' = "supplant:412"
         /\ result' = result
    /\ UNCHANGED <<entry, cfg, pre, workload, objs, expose, cleanups, locals, ui, pass>>

\* kubectl apply -f - with the derived Deployment
supplant_apply ==
    /\ pc = "supplant:406"
    /\ \E f \in FaultChoices :
         /\ cmds' = Append(cmds, Cmd("apply", new_deployment_json,
                                      IF f = "" THEN "ok" ELSE f, f = ""))
         /\ faults' = Bump(f)
         /\ IF f = ""
            THEN /\ derived' = {new_deployment_json}
                 /\ pc' = "supplant:412"
                 /\ result' = result
            ELSE /\ derived' = derived
                 /\ pc' = "returned"
                 /\ result' = Failure("CalledProcessError", <<f>>)
    /\ UNCHANGED <<entry, cfg, pre, workload, objs, expose, cleanups, locals, ui, pass>>

\* Variant: the replica count is read from the derived descriptor, as it
\* would be if the transform had changed the fetched descriptor in place.
supplant_add_cleanup_resize_aliased ==
    /\ pc = "supplant:412"
    /\ cleanups' = Append(cleanups,
            [desc |-> "Re-scale original deployment", fn |-> "resize_original",
             arg |-> new_deployment_json.replicas])
    /\ pc' = "supplant:416"
    /\ UNCHANGED <<entry, cfg, pre, cluster, expose, cmds, locals, result, ui, pass, faults>>

\* Variant: the re-scale is registered as if before the delete, so that the
\* unwinding runs it last.
supplant_add_cleanup_resize_first ==
    /\ pc = "supplant:412"
    /\ cleanups' = <<[desc |-> "Re-scale original deployment", fn |-> "resize_original",
                      arg |-> deployment_json.replicas]>> \o cleanups
    /\ pc' = "supplant:416"
    /\ UNCHANGED <<entry, cfg, pre, cluster, expose, cmds, locals, result, ui, pass, faults>>

\* runner.add_cleanup("Re-scale original deployment", resize_original,
\*                    deployment_json["spec"]["replicas"])
supplant_add_cleanup_resize ==
    /\ pc = "supplant:412"
    /\ cleanups' = Append(cleanups,
            [desc |-> "Re-scale original deployment", fn |-> "resize_original",
             arg |-> deployment_json.replicas])
    /\ pc' = "supplant:416"
    /\ UNCHANGED <<entry, cfg, pre, cluster, expose, cmds, locals, result, ui, pass, faults>>

\* resize_original(0); return new_deployment_name, run_id
supplant_resize ==
    /\ pc = "supplant:416"
    /\ \E f \in FaultChoices :
         LET r == resize_original(0, f)
         IN /\ workload' = r.workload
            /\ cmds' = Append(cmds, Cmd("scale", 0, r.res, r.workload # workload))
            /\ faults' = Bump(f)
            /\ result' = IF r.res = "ok"
                          THEN Success(new_deployment_json.name, cfg.run_id)
                          ELSE Failure("CalledProcessError", <<f>>)
    /\ pc' = "returned"
    /\ UNCHANGED <<entry, cfg, pre, derived, objs, expose, cleanups, locals, ui, pass>>

-----------------------------------------------------------------------------
(* swap_deployment_openshift *)

\* dc_json_with_triggers = kubectl get dc/NAME -o json --export
openshift_get_with_triggers ==
    /\ pc = "openshift:529"
    /\ \E f \in FaultChoices :
         /\ cmds' = Append(cmds, Cmd("get", cfg.deployment,
                                      IF f = "" THEN "ok" ELSE f, FALSE))
         /\ faults' = Bump(f)
         /\ IF f = ""
            THEN /\ dc_json_with_triggers' = workload
                 /\ pc' = "openshift:537"
                 /\ result' = result
            ELSE /\ dc_json_with_triggers' = dc_json_with_triggers
                 /\ pc' = "returned"
                 /\ result' = Failure("CalledProcessError", <<f>>)
    /\ UNCHANGED <<entry, cfg, pre, cluster, expose, cleanups, deployment_json, container,
                   new_deployment_json, ui, pass>>

\* kubectl set triggers dc/NAME --remove-all
openshift_set_triggers ==
    /\ pc = "openshift:537"
    /\ \E f \in FaultChoices :
         LET w == IF f = "" THEN [workload EXCEPT !.triggers = {}] ELSE workload
         IN /\ workload' = w
            /\ cmds' = Append(cmds, Cmd("set triggers", cfg.deployment,
                                         IF f = "" THEN "ok" ELSE f, w # workload))
            /\ faults' = Bump(f)
            /\ IF f = ""
               THEN pc' = "openshift:543" /\ result' = result
               ELSE pc' = "returned" /\ result' = Failure("CalledProcessError", <<f>>)
    /\ UNCHANGED <<entry, cfg, pre, derived, objs, expose, cleanups, locals, ui, pass>>

\* dc_json = kubectl get dc/NAME -o json --export
openshift_get ==
    /\ pc = "openshift:543"
    /\ \E f \in FaultChoices :
         /\ cmds' = Append(cmds, Cmd("get", cfg.deployment,
                                      IF f = "" THEN "ok" ELSE f, FALSE))
         /\ faults' = Bump(f)
         /\ IF f = ""
            THEN /\ deployment_json' = workload
                 /\ pc' = "openshift:568"
                 /\ result' = result
            ELSE /\ deployment_json' = deployment_json
                 /\ pc' = "returned"
                 /\ result' = Failure("CalledProcessError", <<f>>)
    /\ UNCHANGED <<entry, cfg, pre, cluster, expose, cleanups, dc_json_with_triggers, container,
                   new_deployment_json, ui, pass>>

\* The commands of apply_json, in the order it issues them.
ApplyJsonCommands == <<"replace", "rollout latest", "rollout status">>

\* apply_json(json_config) when the environment fails its k-th command with
\* stderr f (k = 0: none): [workload, cmds, ok].  A failed command raises, so
\* the later ones are not issued.
apply_json(json_config, k, f) ==
    LET n == IF k = 0 THEN Len(ApplyJsonCommands) ELSE k
        w == IF k = 1 THEN workload ELSE json_config
    IN [workload |-> w,
        cmds |-> [i \in 1..n |->
                    Cmd(ApplyJsonCommands[i], json_config,
                        IF i = k THEN f ELSE "ok",
                        i = 1 /\ w # workload)],
        ok |-> k = 0]

\* where, and with which stderr, the environment may fail apply_json
ApplyFaultChoices ==
    {<<0, "">>} \cup
    (IF faults < MaxFaults THEN (1..Len(ApplyJsonCommands)) \X StderrTexts ELSE {})

\* Variant: the descriptor fetched after the triggers were removed is the
\* one registered for restoration.
openshift_add_cleanup_stripped ==
    /\ pc = "openshift:568"
    /\ cleanups' = Append(cleanups,
            [desc |-> "Restore original deployment config", fn |-> "apply_json",
             arg |-> deployment_json])
    /\ pc' = "openshift:572"
    /\ UNCHANGED <<entry, cfg, pre, cluster, expose, cmds, locals, result, ui, pass, faults>>

\* runner.add_cleanup("Restore original deployment config", apply_json,
\*                    dc_json_with_triggers)
openshift_add_cleanup ==
    /\ pc = "openshift:568"
    /\ cleanups' = Append(cleanups,
            [desc |-> "Restore original deployment config", fn |-> "apply_json",
             arg |-> dc_json_with_triggers])
    /\ pc' = "openshift:572"
    /\ UNCHANGED <<entry, cfg, pre, cluster, expose, cmds, locals, result, ui, pass, faults>>

\* _get_container_name and new_swapped_deployment
openshift_transform ==
    /\ pc = "openshift:572"
    /\ LET c == get_container_name(cfg.container_arg, deployment_json)
           r == new_swapped_deployment(deployment_json, c, cfg.run_id, expose,
                    cfg.service_account, cfg.custom_nameserver, cfg.ocp_env,
                    cfg.cluster_is_openshift)
       IN /\ container' = c
          /\ IF cfg.container_arg = "" /\ Len(deployment_json.containers) = 0
             THEN /\ pc' = "returned"
                  /\ result' = Failure("IndexError", <<>>)
                  /\ UNCHANGED <<expose, new_deployment_json>>
             ELSE /\ expose' = r.expose
                  /\ IF r.found
                     THEN /\ new_deployment_json' = r.json
                          /\ pc' = "openshift:584"
                          /\ result' = result
                     ELSE /\ new_deployment_json' = new_deployment_json
                          /\ pc' = "returned"
                          /\ result' = Failure("RuntimeError",
                                <<"Couldn't find container in the Deployment", c>>)
    /\ UNCHANGED <<entry, cfg, pre, cluster, cleanups, cmds, deployment_json,
                   dc_json_with_triggers, ui, pass, faults>>

\* apply_json(new_dc_json); return deployment, run_id
openshift_apply ==
    /\ pc = "openshift:584"
    /\ \E kf \in ApplyFaultChoices :
         LET r == apply_json(new_deployment_json, kf[1], kf[2])
         IN /\ workload' = r.workload
            /\ cmds' = cmds \o r.cmds
            /\ faults' = Bump(kf[2])
            /\ result' = IF r.ok THEN Success(cfg.deployment, cfg.run_id)
                          ELSE Failure("CalledProcessError", <<kf[2]>>)
    /\ pc' = "returned"
    /\ UNCHANGED <<entry, cfg, pre, derived, objs, expose, cleanups, locals, ui, pass>>

-----------------------------------------------------------------------------
(* existing_deployment, existing_deployment_openshift *)

\* the position of the first ":" of deployment_arg, 0 if there is none
ColonAt(deployment_arg) ==
    IF \E i \in 1..Len(deployment_arg) : deployment_arg[i] = ":"
    THEN CHOOSE i \in 1..Len(deployment_arg) :
            /\ deployment_arg[i] = ":"
            /\ \A j \in 1..(i - 1) : deployment_arg[j] # ":"
    ELSE 0

\* deployment_arg.split(":", 1); what follows the colon is one piece
split_deployment_container(deployment_arg) ==
    LET k == ColonAt(deployment_arg)
    IN IF k = 0 THEN [deployment |-> deployment_arg, container |-> ""]
       ELSE [deployment |-> SubSeq(deployment_arg, 1, k - 1),
             container |-> IF k = Len(deployment_arg) THEN "" ELSE deployment_arg[k + 1]]

\* Variant: the ports of every protocol are merged.
set_expose_ports_any_protocol(exp, deployment_arg, d_json) ==
    LET container_to_update == get_container_name(split_deployment_container(deployment_arg).container, d_json)
        k == FindContainer(d_json.containers, container_to_update)
    IN IF split_deployment_container(deployment_arg).container = "" /\ Len(d_json.containers) = 0
       THEN [expose |-> exp, exc |-> "IndexError"]
       ELSE [expose |-> IF k = 0 THEN exp
                        ELSE exp \cup {p.containerPort : p \in d_json.containers[k].ports},
             exc |-> ""]

\* _set_expose_ports: [expose, exc]
set_expose_ports(exp, deployment_arg, d_json) ==
    LET container_to_update == get_container_name(split_deployment_container(deployment_arg).container, d_json)
        k == FindContainer(d_json.containers, container_to_update)
    IN IF split_deployment_container(deployment_arg).container = "" /\ Len(d_json.containers) = 0
       THEN [expose |-> exp, exc |-> "IndexError"]
       ELSE [expose |-> IF k = 0 THEN exp
                        ELSE merge_automatic_ports(exp, TcpPorts(d_json.containers[k])),
             exc |-> ""]

\* kubectl get <kind> deployment_arg -o json, _set_expose_ports, and the
\* return of (deployment_arg, None); the cluster knows the workload by its
\* name only
fetch_existing(kind) ==
    /\ \E f \in FaultChoices :
         LET res == IF f # "" THEN f
                    ELSE IF workload # NoJson /\ workload.name = cfg.deployment THEN "ok"
                    ELSE "NotFound"
             r == set_expose_ports(expose, cfg.deployment, workload)
         IN /\ cmds' = Append(cmds, Cmd("get", cfg.deployment, res, FALSE))
            /\ faults' = Bump(f)
            /\ IF res # "ok"
               THEN /\ result' = Failure("runner.fail", <<"Failed to find " \o kind, cfg.deployment, res>>)
                    /\ expose' = expose
               ELSE /\ expose' = r.expose
                    /\ result' = IF r.exc = "" THEN Success(cfg.deployment, <<>>)
                                  ELSE Failure(r.exc, <<>>)
    /\ pc' = "returned"
    /\ UNCHANGED <<entry, cfg, pre, cluster, cleanups, locals, ui, pass>>

existing_deployment ==
    /\ pc = "existing:76"
    /\ fetch_existing("deployment")

existing_deployment_openshift ==
    /\ pc = "existing_openshift:110"
    /\ fetch_existing("deploymentconfig")

-----------------------------------------------------------------------------
(* The cleanup registry of the runner: the session ends, after a successful *)
(* or a failed provisioning call, by running the registered cleanups in     *)
(* reverse registration order; a cleanup that fails is reported and the     *)
(* earlier-registered ones still run.                                       *)

start_cleanup ==
    /\ pc = "returned"
    /\ pc' = "cleanup"
    /\ ui' = Len(cleanups)
    /\ pass' = 1
    /\ UNCHANGED <<entry, cfg, pre, cluster, expose, cleanups, cmds, locals, result, faults>>

\* run cleanups[ui]
run_cleanup ==
    /\ pc = "cleanup"
    /\ ui >= 1
    /\ LET c == cleanups[ui] IN
       \/ /\ c.fn = "remove_existing_deployment"
          /\ \E f \in FaultChoices :
               LET os == IF f = "" THEN remove_existing_deployment(objs, c.arg) ELSE objs
               IN /\ objs' = os
                  /\ cmds' = Append(cmds, Cmd("delete", c.arg,
                                               IF f = "" THEN "ok" ELSE f, os # objs))
                  /\ faults' = Bump(f)
          /\ UNCHANGED <<workload, derived>>
       \/ /\ c.fn = "delete_new_deployment"
          /\ \E f \in FaultChoices :
               LET r == delete_new_deployment(new_deployment_json.name, c.arg, f)
               IN /\ derived' = r.derived
                  /\ cmds' = Append(cmds, Cmd("delete", new_deployment_json.name, r.res,
                                               r.derived # derived))
                  /\ faults' = Bump(f)
          /\ UNCHANGED <<workload, objs>>
       \/ /\ c.fn = "resize_original"
          /\ \E f \in FaultChoices :
               LET r == resize_original(c.arg, f)
               IN /\ workload' = r.workload
                  /\ cmds' = Append(cmds, Cmd("scale", c.arg, r.res,
                                               r.workload # workload))
                  /\ faults' = Bump(f)
          /\ UNCHANGED <<derived, objs>>
       \/ /\ c.fn = "apply_json"
          /\ \E kf \in ApplyFaultChoices :
               LET r == apply_json(c.arg, kf[1], kf[2])
               IN /\ workload' = r.workload
                  /\ cmds' = cmds \o r.cmds
                  /\ faults' = Bump(kf[2])
          /\ UNCHANGED <<derived, objs>>
    /\ ui' = ui - 1
    /\ UNCHANGED <<entry, cfg, pre, pc, expose, cleanups, locals, result, pass>>

\* the registered cleanups are run once more
rerun_cleanup ==
    /\ pc = "cleanup"
    /\ ui = 0
    /\ pass < MaxPasses
    /\ ui' = Len(cleanups)
    /\ pass' = pass + 1
    /\ UNCHANGED <<entry, cfg, pre, pc, cluster, expose, cleanups, cmds, locals, result, faults>>

-----------------------------------------------------------------------------
(* Sessions *)

Name_svc_a == <<"s", "v", "c", "-", "a">>
Name_web == <<"w", "e", "b">>
Name_other == <<"o", "t", "h", "e", "r">>
\* runner.session_id of this session and of another one
RunId == <<"r", "1">>
OtherRunId == <<"r", "0">>

\* an object of another session
OtherObject ==
    [kind |-> "deploy", name |-> Name_other, labels |-> {TelLabel(OtherRunId)},
     selector |-> {TelLabel(OtherRunId)}, podLabels |-> {TelLabel(OtherRunId)},
     ports |-> <<>>, by |-> "other"]

CreateNewCfgs ==
    [mode : {"create_new"}, run_id : {RunId}, deployment : {Name_svc_a},
     container_arg : {""}, service_account : {"", "sa"},
     custom_nameserver : {"", "10.0.0.1"},
     ocp_env : {"auto"}, cluster_is_openshift : {FALSE},
     labels : {<<>>, << <<"app", "web">> >>},
     annotations : {<<>>, << <<"note", "x">> >>},
     expose : SUBSET {80, 443, 8080}]

SupplantCfgs ==
    [mode : {"supplant", "openshift"}, run_id : {RunId}, deployment : {Name_web},
     container_arg : {"", "app", "ghost"}, service_account : {"", "sa"},
     custom_nameserver : {""},
     ocp_env : {"auto", "never"}, cluster_is_openshift : BOOLEAN,
     labels : {<<>>}, annotations : {<<>>},
     expose : {{}, {8080}}]

\* deployment_arg: the workload, the workload with a container, a workload
\* that does not exist
ExistingCfgs ==
    [mode : {"existing", "existing_openshift"}, run_id : {RunId},
     deployment : {Name_web, Name_web \o <<":", "app">>, Name_svc_a},
     container_arg : {""}, service_account : {""},
     custom_nameserver : {""},
     ocp_env : {"auto"}, cluster_is_openshift : {FALSE},
     labels : {<<>>}, annotations : {<<>>},
     expose : {{}, {8080}}]

\* the original workload before the session
Workloads(mode) ==
    [name : {Name_web}, replicas : 0..MaxReplicas,
     triggers : IF mode = "openshift" THEN {{}, {"ConfigChange", "ImageChange"}} ELSE {{}},
     labels : {{<<"app", "web">>}}, podLabels : {{<<"app", "web">>}},
     serviceAccountName : {""}, containers : ContainerLists]

Init ==
    /\ cfg \in CreateNewCfgs \cup SupplantCfgs \cup ExistingCfgs
    /\ IF cfg.mode = "create_new"
       THEN /\ workload = NoJson
            /\ objs \in SUBSET {OtherObject}
            /\ pc = "create_new:258"
       ELSE /\ workload \in Workloads(cfg.mode)
            /\ cfg.cluster_is_openshift = (cfg.mode = "openshift")
            /\ objs = {}
            /\ pc = IF cfg.mode = "supplant" THEN "supplant:350"
                    ELSE IF cfg.mode = "openshift" THEN "openshift:529"
                    ELSE IF cfg.mode = "existing" THEN "existing:76"
                    ELSE "existing_openshift:110"
    /\ pre = workload
    /\ derived = {}
    /\ expose = cfg.expose
    /\ cleanups = <<>>
    /\ cmds = <<>>
    /\ deployment_json = NoJson
    /\ dc_json_with_triggers = NoJson
    /\ container = ""
    /\ new_deployment_json = NoJson
    /\ result = NoResult
    /\ ui = 0
    /\ pass = 0
    /\ faults = 0
    /\ exclusions = <<>>
    /\ scan = 0
    /\ procs = <<>>
    /\ now = 0
    /\ start = 0
    /\ lookup = NoLookup

Next ==
    \/ existing_deployment
    \/ existing_deployment_openshift
    \/ create_new_add_cleanup
    \/ create_new_preclean
    \/ create_new_create
    \/ create_new_expose
    \/ supplant_get
    \/ supplant_transform
    \/ supplant_add_cleanup_delete
    \/ supplant_delete_stale
    \/ supplant_apply
    \/ supplant_add_cleanup_resize
    \/ supplant_resize
    \/ openshift_get_with_triggers
    \/ openshift_set_triggers
    \/ openshift_get
    \/ openshift_add_cleanup
    \/ openshift_transform
    \/ openshift_apply
    \/ start_cleanup
    \/ run_cleanup
    \/ rerun_cleanup

Spec == Init /\ [][Next]_vars

-----------------------------------------------------------------------------
(* The functions of deployment.py called on their own: new_swapped_deployment *)
(* on every subset of the fields it drops, get_image_name on every override  *)
(* value, and the derived name on every length of name and session id.       *)

\* a string of n characters, as a tuple of characters
Chars(alphabet, n) == [i \in 1..n |-> alphabet[((i - 1) % Len(alphabet)) + 1]]
Letters == <<"a", "b", "c", "d", "e", "f", "g">>
Digits == <<"0", "1", "2", "3", "4", "5", "6", "7", "8", "9">>

\* the values TELEPRESENCE_USE_OCP_IMAGE is given
EnvValues ==
    {"true", "on", "yes", "1", "always", "false", "off", "no", "0", "never",
     "auto", "automatic", "default", "maybe", "2", ""} \cup DOMAIN LowerCase

TransformCfgs ==
    [fn : {"new_swapped_deployment"}, run_id : {RunId},
     old_deployment :
        [name : {Name_web}, replicas : {MaxReplicas}, triggers : {{}},
         labels : {{<<"app", "web">>}}, podLabels : {{<<"app", "web">>}},
         serviceAccountName : {""},
         containers : {<<Cont("app", {TcpPort(8080)}, F)>> : F \in SUBSET Unneeded}
                      \cup {<<Cont("side", {}, Unneeded), Cont("app", {}, F)>> :
                                F \in SUBSET Unneeded}],
     container_to_update : {"app"}, service_account : {""},
     custom_nameserver : {""}, environ : {{}}, cluster_is_openshift : {FALSE},
     expose : {{}}]

ImageCfgs ==
    [fn : {"get_image_name"},
     environ : {{}} \cup {{v} : v \in EnvValues},
     cluster_is_openshift : BOOLEAN,
     expose : {{}, {8080}, {PrivilegedBelow}, {PrivilegedBelow - 1}, {80, 8080}}]

NameCfgs ==
    [fn : {"new_name"},
     name : {Chars(Letters, n) : n \in 1..MaxNameLen},
     run_id : {Chars(Digits, n) : n \in 1..MaxRunIdLen}]

\* the provisioner and the entrypoint have not run
Idle ==
    /\ pre = NoJson
    /\ workload = NoJson
    /\ derived = {}
    /\ objs = {}
    /\ cleanups = <<>>
    /\ cmds = <<>>
    /\ deployment_json = NoJson
    /\ dc_json_with_triggers = NoJson
    /\ container = ""
    /\ new_deployment_json = NoJson
    /\ result = NoResult
    /\ ui = 0
    /\ pass = 0
    /\ faults = 0
    /\ exclusions = <<>>
    /\ scan = 0
    /\ procs = <<>>
    /\ now = 0
    /\ start = 0
    /\ lookup = NoLookup

InitFn ==
    /\ cfg \in TransformCfgs \cup ImageCfgs \cup NameCfgs
    /\ pc = "call"
    /\ expose = IF cfg.fn = "new_name" THEN {} ELSE cfg.expose
    /\ Idle

call_new_swapped_deployment ==
    /\ pc = "call"
    /\ cfg.fn = "new_swapped_deployment"
    /\ LET r == new_swapped_deployment(cfg.old_deployment, cfg.container_to_update,
                    cfg.run_id, expose, cfg.service_account, cfg.custom_nameserver,
                    environ_get(cfg.environ, "auto"), cfg.cluster_is_openshift)
       IN /\ expose' = r.expose
          /\ new_deployment_json' = r.json
          /\ result' = IF r.found THEN Success(r.json.name, cfg.run_id)
                        ELSE Failure("RuntimeError", <<>>)
    /\ pc' = "done"
    /\ UNCHANGED <<entry, cfg, pre, cluster, cleanups, cmds, deployment_json,
                   dc_json_with_triggers, container, ui, pass, faults>>

call_get_image_name ==
    /\ pc = "call"
    /\ cfg.fn = "get_image_name"
    /\ result' = Success(get_image_name(environ_get(cfg.environ, "auto"),
                                        cfg.cluster_is_openshift, expose), "")
    /\ pc' = "done"
    /\ UNCHANGED <<entry, cfg, pre, cluster, expose, cleanups, cmds, locals, ui, pass,
                   faults>>

call_new_name ==
    /\ pc = "call"
    /\ cfg.fn = "new_name"
    /\ result' = IF new_name_fails(cfg.run_id)
                  THEN Failure("ValueError", <<>>)
                  ELSE Success(new_name(cfg.name, cfg.run_id), cfg.run_id)
    /\ pc' = "done"
    /\ UNCHANGED <<entry, cfg, pre, cluster, expose, cleanups, cmds, locals, ui, pass,
                   faults>>

NextFn ==
    \/ call_new_swapped_deployment
    \/ call_get_image_name
    \/ call_new_name

SpecFn == InitFn /\ [][NextFn]_vars

-----------------------------------------------------------------------------
(* local-docker/entrypoint.py: proxy() *)

\* A line of the netstat output is the sequence of its whitespace-separated
\* columns (line.split()), and a column the sequence of its pieces between
\* colons (address.split(":")).
Word(w) == <<w>>
Address(ip, port) == <<ip, port>>

EstablishedRow ==
    <<Word("tcp"), Word("0"), Word("0"), Address("172.17.0.2", "38023"),
      Address("172.17.0.1", "51234"), Word("ESTABLISHED")>>
ListenRow ==
    <<Word("tcp"), Word("0"), Word("0"), Address("0.0.0.0", "22"),
      Address("0.0.0.0", "*"), Word("LISTEN")>>
UdpRow ==
    <<Word("udp"), Word("0"), Word("0"), Address("172.17.0.2", "53"),
      Address("10.0.0.10", "53"), Word("ESTABLISHED")>>
HeaderRow == <<Word("Active"), Word("Internet"), Word("connections")>>
\* no fourth column
ThreeColumnRow == <<Word("tcp"), Word("0"), Word("ESTABLISHED")>>
\* no fifth column
FourColumnRow == <<Word("tcp"), Word("ESTABLISHED"), Word("0"), Address("172.17.0.2", "38023")>>
\* an IPv6 endpoint has more than one colon
Ipv6Row ==
    <<Word("tcp6"), Word("0"), Word("0"), <<"", "", "1", "38023">>,
      <<"", "", "1", "51234">>, Word("ESTABLISHED")>>
\* the peer has no port
NoPortRow ==
    <<Word("tcp"), Word("0"), Word("0"), Address("172.17.0.2", "38023"),
      Word("172.17.0.1"), Word("ESTABLISHED")>>

NetstatRows == {EstablishedRow, ListenRow, UdpRow, HeaderRow, ThreeColumnRow,
                FourColumnRow, Ipv6Row, NoPortRow}

NetstatOutputs == UNION {[1..n -> NetstatRows] : n \in 0..MaxLines}

\* what a background process may exit with
ExitCodes == {0, 1, 2}

ProxyCfgs ==
    [mode : {"proxy"},
     include_cidrs : {<<"10.96.0.0/12">>},
     exclude_cidrs : {<<>>, <<"192.168.0.0/24">>},
     expose_ports : {<<>>, <<8080>>},
     to_pod : {<<>>}, from_pod : {<<>>},
     netstat : NetstatOutputs]

\* the state of the provisioner, which the entrypoint leaves alone
prov == <<pre, workload, derived, objs, expose, cleanups, deployment_json,
          dc_json_with_triggers, container, new_deployment_json, ui, pass>>

InitProxy ==
    /\ cfg \in ProxyCfgs
    /\ pc = "proxy:81"
    /\ expose = {}
    /\ Idle

\* the process ends with an exception
Raise(exc, msg) == pc' = "exited" /\ result' = Failure(exc, msg)

\* runner.check_call(["/usr/sbin/sshd", "-e"])
proxy_sshd ==
    /\ pc = "proxy:81"
    /\ \E f \in FaultChoices :
         /\ cmds' = Append(cmds, Cmd("sshd", <<>>, IF f = "" THEN "ok" ELSE f, FALSE))
         /\ faults' = Bump(f)
         /\ IF f = "" THEN pc' = "proxy:84" /\ result' = result
            ELSE Raise("CalledProcessError", <<f>>)
    /\ UNCHANGED <<cfg, prov, entry>>

\* Variant: the outcome of ssh.wait() is not looked at.
proxy_ssh_wait_unchecked ==
    /\ pc = "proxy:84"
    /\ \E usable \in BOOLEAN :
         cmds' = Append(cmds, Cmd("ssh.wait", <<>>, IF usable THEN "ok" ELSE "unusable", FALSE))
    /\ pc' = "proxy:91"
    /\ UNCHANGED <<cfg, prov, entry, faults, result>>

\* if not ssh.wait(): raise RuntimeError(...)
proxy_ssh_wait ==
    /\ pc = "proxy:84"
    /\ \E usable \in BOOLEAN :
         /\ cmds' = Append(cmds, Cmd("ssh.wait", <<>>,
                                      IF usable THEN "ok" ELSE "unusable", FALSE))
         /\ IF usable THEN pc' = "proxy:91" /\ result' = result
            ELSE Raise("RuntimeError",
                       <<"SSH from local container to the cluster failed to start.">>)
    /\ UNCHANGED <<cfg, prov, entry, faults>>

RECURSIVE ExcludeFlags(_)
\* for cidr in exclude_cidrs: exclusions.extend(["-x", cidr])
ExcludeFlags(cidrs) ==
    IF cidrs = <<>> THEN <<>>
    ELSE <<"-x", Head(cidrs)>> \o ExcludeFlags(Tail(cidrs))

\* exclusions = []; the loop over exclude_cidrs; netstat -n
proxy_netstat ==
    /\ pc = "proxy:91"
    /\ exclusions' = ExcludeFlags(cfg.exclude_cidrs)
    /\ \E f \in FaultChoices :
         /\ cmds' = Append(cmds, Cmd("netstat", <<>>, IF f = "" THEN "ok" ELSE f, FALSE))
         /\ faults' = Bump(f)
         /\ IF f = "" THEN pc' = "proxy:95" /\ result' = result
            ELSE Raise("CalledProcessError", <<f>>)
    /\ UNCHANGED <<cfg, prov, scan, procs, clock>>

\* line.startswith("tcp")
StartsWithTcp(line) == Len(line) > 0 /\ line[1][1] \in {"tcp", "tcp6"}

\* "ESTABLISHED" in line
HasEstablished(line) ==
    \E i \in 1..Len(line) : \E j \in 1..Len(line[i]) : line[i][j] = "ESTABLISHED"

\* The try block for one line: [exclusions, exc].  The tuple (parts[3],
\* parts[4]) is built before the loop, so a missing column adds nothing;
\* ip, port = address.split(":") needs exactly two pieces.
ParseLine(excl, parts) ==
    IF Len(parts) < 5 THEN [exclusions |-> excl, exc |-> "IndexError"]
    ELSE IF Len(parts[4]) # 2 THEN [exclusions |-> excl, exc |-> "ValueError"]
    ELSE IF Len(parts[5]) # 2
         THEN [exclusions |-> excl \o <<"-x", parts[4][1]>>, exc |-> "ValueError"]
    ELSE [exclusions |-> excl \o <<"-x", parts[4][1], "-x", parts[5][1]>>, exc |-> ""]

\* Variant: a line that cannot be parsed is skipped.
proxy_scan_line_skipping ==
    /\ pc = "proxy:95"
    /\ scan < Len(cfg.netstat)
    /\ scan' = scan + 1
    /\ LET line == cfg.netstat[scan + 1]
           r == ParseLine(exclusions, line)
       IN /\ exclusions' = IF StartsWithTcp(line) /\ HasEstablished(line) /\ r.exc = ""
                            THEN r.exclusions ELSE exclusions
          /\ UNCHANGED <<pc, result, cmds>>
    /\ UNCHANGED <<cfg, prov, procs, clock, faults>>

\* one turn of the loop over netstat_output.splitlines()
proxy_scan_line ==
    /\ pc = "proxy:95"
    /\ scan < Len(cfg.netstat)
    /\ scan' = scan + 1
    /\ LET line == cfg.netstat[scan + 1]
           r == ParseLine(exclusions, line)
       IN IF ~StartsWithTcp(line) \/ ~HasEstablished(line)
          THEN UNCHANGED <<pc, exclusions, result, cmds>>
          ELSE /\ exclusions' = r.exclusions
               /\ IF r.exc = ""
                  THEN UNCHANGED <<pc, result, cmds>>
                  ELSE /\ cmds' = Append(cmds, Cmd("write", <<"Failed on line: ", line>>,
                                                    "ok", FALSE))
                       /\ Raise(r.exc, <<>>)
    /\ UNCHANGED <<cfg, prov, procs, clock, faults>>

\* Variant: the assertion is not evaluated.
proxy_assert_stripped ==
    /\ pc = "proxy:95"
    /\ scan = Len(cfg.netstat)
    /\ cmds' = Append(cmds, Cmd("assert", exclusions, "ok", FALSE))
    /\ pc' = "proxy:109"
    /\ result' = result
    /\ UNCHANGED <<cfg, prov, entry, faults>>

\* assert exclusions, netstat_output
proxy_assert ==
    /\ pc = "proxy:95"
    /\ scan = Len(cfg.netstat)
    /\ cmds' = Append(cmds, Cmd("assert", exclusions,
                                 IF exclusions # <<>> THEN "ok" ELSE "AssertionError",
                                 FALSE))
    /\ IF exclusions # <<>> THEN pc' = "proxy:109" /\ result' = result
       ELSE Raise("AssertionError", cfg.netstat)
    /\ UNCHANGED <<cfg, prov, entry, faults>>

\* get_sshuttle_command(ssh, "nat")
get_sshuttle_command == <<"sshuttle-telepresence", "--method", "nat">>

Process(name, argv) == [name |-> name, argv |-> argv, running |-> TRUE, code |-> 0, order |-> 0]

\* main_process = Popen(get_sshuttle_command(ssh, "nat") + exclusions + inclusions)
proxy_popen ==
    /\ pc = "proxy:109"
    /\ \E f \in FaultChoices :
         LET sshuttle_cmd == get_sshuttle_command \o exclusions \o cfg.include_cidrs
         IN /\ cmds' = Append(cmds, Cmd("Popen", sshuttle_cmd,
                                         IF f = "" THEN "ok" ELSE f, FALSE))
            /\ faults' = Bump(f)
            /\ IF f = ""
               THEN /\ procs' = Append(procs, Process("sshuttle", sshuttle_cmd))
                    /\ pc' = "proxy:113"
                    /\ result' = result
               ELSE /\ procs' = procs
                    /\ Raise("OSError", <<f>>)
    /\ UNCHANGED <<cfg, prov, exclusions, scan, clock>>

\* expose_local_services(runner, ssh, expose_ports, to_pod, from_pod): one
\* SSH tunnel in the background for each port
expose_local_services(expose_ports, to_pod, from_pod) ==
    LET ports == expose_ports \o to_pod \o from_pod
    IN [i \in 1..Len(ports) |-> Process("ssh", <<ports[i]>>)]

proxy_expose ==
    /\ pc = "proxy:113"
    /\ procs' = procs \o expose_local_services(cfg.expose_ports, cfg.to_pod, cfg.from_pod)
    /\ cmds' = Append(cmds, Cmd("expose_local_services", cfg.expose_ports, "ok", FALSE))
    /\ pc' = "proxy:116"
    /\ UNCHANGED <<cfg, prov, exclusions, scan, clock, result, faults>>

\* Variant: proxy() ends after starting the tunnels.
proxy_wait_for_exit_skipped ==
    /\ pc = "proxy:116"
    /\ cmds' = Append(cmds, Cmd("wait_for_exit", <<>>, "ok", FALSE))
    /\ pc' = "exited"
    /\ result' = Success("", "")
    /\ UNCHANGED <<cfg, prov, entry, faults>>

\* runner.wait_for_exit(main_process) is called
proxy_wait_for_exit ==
    /\ pc = "proxy:116"
    /\ cmds' = Append(cmds, Cmd("wait_for_exit", <<>>, "ok", FALSE))
    /\ pc' = "waiting"
    /\ UNCHANGED <<cfg, prov, entry, result, faults>>

\* the background processes that have exited
Exited == {i \in 1..Len(procs) : ~procs[i].running}

\* a background process exits
process_exits ==
    /\ pc \in {"proxy:113", "proxy:116", "waiting"}
    /\ \E i \in 1..Len(procs) : \E code \in ExitCodes :
         /\ procs[i].running
         /\ procs' = [procs EXCEPT ![i] =
                         [@ EXCEPT !.running = FALSE, !.code = code,
                                   !.order = Cardinality(Exited) + 1]]
    /\ UNCHANGED <<cfg, prov, pc, exclusions, scan, clock, result, cmds, faults>>

\* Runner.wait_for_exit returns: every process has exited, and the first
\* non-zero exit status is the failure of the caller
wait_for_exit_returns ==
    /\ pc = "waiting"
    /\ \A i \in 1..Len(procs) : ~procs[i].running
    /\ LET bad == {i \in 1..Len(procs) : procs[i].code # 0}
       IN IF bad = {}
          THEN result' = Success("", "")
          ELSE LET first == CHOOSE i \in bad : \A j \in bad : procs[i].order <= procs[j].order
               IN result' = Failure("SystemExit", <<procs[first].code>>)
    /\ pc' = "exited"
    /\ UNCHANGED <<cfg, prov, entry, cmds, faults>>

NextProxy ==
    \/ proxy_sshd
    \/ proxy_ssh_wait
    \/ proxy_netstat
    \/ proxy_scan_line
    \/ proxy_assert
    \/ proxy_popen
    \/ proxy_expose
    \/ proxy_wait_for_exit
    \/ process_exits
    \/ wait_for_exit_returns

SpecProxy == InitProxy /\ [][NextProxy]_vars

-----------------------------------------------------------------------------
(* local-docker/entrypoint.py: wait() *)

\* the wall-clock time at which the process may start
StartTimes == {0, 5}

\* what gethostbyname("kubernetes.default") may do
LookupOutcomes == {"ok", "gaierror"}

\* sys.exit(arg): an integer is the exit code; a string is printed to stderr
\* and the exit code is 1
sys_exit_code(n) == Failure("SystemExit", [code |-> n, message |-> ""])
sys_exit_message(m) == Failure("SystemExit", [code |-> 1, message |-> m])

InitWait ==
    /\ cfg = [mode |-> "wait"]
    /\ pc = "wait:121"
    /\ expose = {}
    /\ Idle

\* start = time()
wait_start ==
    /\ pc = "wait:121"
    /\ \E t \in StartTimes : now' = t /\ start' = t
    /\ pc' = "wait:122"
    /\ UNCHANGED <<cfg, prov, exclusions, scan, procs, lookup, result, cmds, faults>>

\* Variant: while True
wait_loop_unbounded ==
    /\ pc = "wait:122"
    /\ pc' = "wait:124"
    /\ UNCHANGED <<cfg, prov, entry, result, cmds, faults>>

\* while time() - start < 30
wait_loop ==
    /\ pc = "wait:122"
    /\ pc' = IF now - start < Ceiling THEN "wait:124" ELSE "wait:129"
    /\ UNCHANGED <<cfg, prov, entry, result, cmds, faults>>

\* gethostbyname("kubernetes.default") returns or raises gaierror
wait_lookup ==
    /\ pc = "wait:124"
    /\ \E d \in 0..MaxLookupTicks : \E res \in LookupOutcomes :
         /\ now + d <= MaxTicks
         /\ now' = now + d
         /\ lookup' = [at |-> now, end |-> now + d, res |-> res]
         /\ pc' = IF res = "ok" THEN "wait:125" ELSE "wait:128"
    /\ UNCHANGED <<cfg, prov, exclusions, scan, procs, start, result, cmds, faults>>

\* Variant: no sleep before the exit.
wait_settle_skipped ==
    /\ pc = "wait:125"
    /\ pc' = "wait:126"
    /\ UNCHANGED <<cfg, prov, entry, result, cmds, faults>>

\* sleep(1)
wait_settle ==
    /\ pc = "wait:125"
    /\ now + SettleSeconds * TicksPerSecond <= MaxTicks
    /\ now' = now + SettleSeconds * TicksPerSecond
    /\ pc' = "wait:126"
    /\ UNCHANGED <<cfg, prov, exclusions, scan, procs, start, lookup, result, cmds, faults>>

\* sys.exit(100)
wait_exit_ready ==
    /\ pc = "wait:126"
    /\ result' = sys_exit_code(ReadyCode)
    /\ pc' = "exited"
    /\ UNCHANGED <<cfg, prov, entry, cmds, faults>>

\* except gaierror: sleep(0.1)
wait_retry ==
    /\ pc = "wait:128"
    /\ now + RetrySleep <= MaxTicks
    /\ now' = now + RetrySleep
    /\ pc' = "wait:122"
    /\ UNCHANGED <<cfg, prov, exclusions, scan, procs, start, lookup, result, cmds, faults>>

\* sys.exit("Failed to connect to proxy in remote cluster.")
wait_exit_failed ==
    /\ pc = "wait:129"
    /\ result' = sys_exit_message("Failed to connect to proxy in remote cluster.")
    /\ pc' = "exited"
    /\ UNCHANGED <<cfg, prov, entry, cmds, faults>>

NextWait ==
    \/ wait_start
    \/ wait_loop
    \/ wait_lookup
    \/ wait_settle
    \/ wait_exit_ready
    \/ wait_retry
    \/ wait_exit_failed

SpecWait == InitWait /\ [][NextWait]_vars

\* every statement of wait() that can run does run: each lookup returns and
\* each sleep ends
SpecWaitFair == SpecWait /\ WF_vars(NextWait)

-----------------------------------------------------------------------------
(* Properties *)

Last(seq) == seq[Len(seq)]

\* the commands of the log that satisfy Test, in order
Provisioning(e) == e.pass = 0
FirstPass(e) == e.pass = 1

\* the command was failed by the environment
IsFault(e) == e.res \in StderrTexts

NoCleanupFault == \A i \in 1..Len(cmds) : cmds[i].pass >= 1 => ~IsFault(cmds[i])

\* the first unwinding of the registry has run every cleanup
Unwound == pc = "cleanup" /\ pass = 1 /\ ui = 0

Mutating == {"delete", "create", "expose", "apply", "scale", "set triggers",
             "replace", "rollout latest"}

\* the cleanup that undoes a command of the provisioning call
InverseOf(e) ==
    IF cfg.mode = "create_new" THEN "remove_existing_deployment"
    ELSE IF cfg.mode = "openshift" THEN "apply_json"
    ELSE IF e.cmd = "scale" THEN "resize_original"
    ELSE "delete_new_deployment"

\* C1: every cluster-mutating command of create_new_deployment,
\* supplant_deployment and swap_deployment_openshift is issued only after
\* its inverse has been registered with add_cleanup; in particular the
\* OpenShift variant has registered the restoring apply_json before it
\* removes the triggers.
C1_InverseRegisteredFirst ==
    \A i \in 1..Len(cmds) :
        (cmds[i].pass = 0 /\ cmds[i].cmd \in Mutating)
            => InverseOf(cmds[i]) \in cmds[i].regs

\* C2: when native or OpenShift supplant has failed and the registry has
\* been unwound (no cleanup command failed by the environment), the original
\* workload is what it was before the session (replica count and triggers
\* included) and no derived object remains.
C2_FailedSupplantRestored ==
    (/\ cfg.mode \in {"supplant", "openshift"}
     /\ result.status = "failed"
     /\ Unwound
     /\ NoCleanupFault)
        => (workload = pre /\ derived = {})

\* C3: after a successful native supplant the unwinding first scales the
\* original Deployment to the replica count it was fetched with and then
\* deletes the derived Deployment; when neither command is failed by the
\* environment the original has its pre-session replica count and the
\* derived Deployment is absent.
C3_UnwindScalesThenDeletes ==
    (cfg.mode = "supplant" /\ result.status = "ok" /\ pass >= 1)
        => LET rb == SelectSeq(cmds, FirstPass)
           IN /\ Len(rb) >= 1 => (rb[1].cmd = "scale" /\ rb[1].arg = pre.replicas)
              /\ Len(rb) >= 2 => (rb[2].cmd = "delete" /\ rb[2].arg = result.name)
              /\ pass = 1 => Len(rb) = 2 - ui
              /\ pass > 1 => Len(rb) = 2
              /\ (Unwound /\ NoCleanupFault) => (workload = pre /\ derived = {})

\* C3 witness: a successful native supplant of a Deployment with
\* MaxReplicas replicas has been unwound: both cleanups succeeded.
C3_Witness ==
    /\ cfg.mode = "supplant"
    /\ result.status = "ok"
    /\ Unwound
    /\ NoCleanupFault
    /\ pre.replicas = MaxReplicas
    /\ \E i \in 1..Len(cmds) : cmds[i].cmd = "scale" /\ cmds[i].arg = 0 /\ cmds[i].changed
    /\ Len(SelectSeq(cmds, FirstPass)) = 2

\* C4: running the cleanups registered by supplant a second time, after a
\* first complete unwinding, changes no cluster state and reports no
\* failure (the environment failing no command).
C4_SecondUnwindIsNoOp ==
    (cfg.mode \in {"supplant", "openshift"} /\ faults = 0)
        => \A i \in 1..Len(cmds) :
              cmds[i].pass = 2 => (cmds[i].res = "ok" /\ ~cmds[i].changed)

\* C5: in swap_deployment_openshift the descriptor registered for
\* restoration is the DeploymentConfig as it was before the triggers were
\* removed, the derived descriptor is built from the trigger-free one,
\* apply_json issues replace, rollout latest, rollout status in that order
\* both when provisioning and when unwinding, and the call returns
\* successfully only after rollout status has completed.
C5_OpenShiftSnapshotAndOrder ==
    cfg.mode = "openshift" =>
        /\ \A i \in 1..Len(cleanups) :
              cleanups[i].fn = "apply_json" =>
                  (cleanups[i].arg = pre /\ cleanups[i].arg.triggers = pre.triggers)
        /\ new_deployment_json # NoJson => new_deployment_json.triggers = {}
        /\ \A i \in 1..Len(cmds) :
              /\ (cmds[i].cmd = "replace" /\ cmds[i].pass = 0) =>
                    (cmds[i].arg = new_deployment_json /\ cmds[i].arg.triggers = {})
              /\ (cmds[i].cmd = "replace" /\ cmds[i].pass >= 1) => cmds[i].arg = pre
              /\ (cmds[i].cmd = "replace" /\ cmds[i].res = "ok") =>
                    (i < Len(cmds) /\ cmds[i + 1].cmd = "rollout latest"
                        /\ cmds[i + 1].pass = cmds[i].pass)
              /\ (cmds[i].cmd = "rollout latest" /\ cmds[i].res = "ok") =>
                    (i < Len(cmds) /\ cmds[i + 1].cmd = "rollout status"
                        /\ cmds[i + 1].pass = cmds[i].pass)
              /\ cmds[i].cmd = "rollout latest" =>
                    (i > 1 /\ cmds[i - 1].cmd = "replace" /\ cmds[i - 1].res = "ok")
              /\ cmds[i].cmd = "rollout status" =>
                    (i > 1 /\ cmds[i - 1].cmd = "rollout latest" /\ cmds[i - 1].res = "ok")
        /\ result.status = "ok" =>
              LET fw == SelectSeq(cmds, Provisioning)
              IN /\ Len(fw) >= 3
                 /\ Last(fw).cmd = "rollout status" /\ Last(fw).res = "ok"

\* C5 witness: a DeploymentConfig with triggers was swapped successfully and
\* restored by the unwinding, each time with the three commands of
\* apply_json.
C5_Witness ==
    /\ cfg.mode = "openshift"
    /\ result.status = "ok"
    /\ pre.triggers # {}
    /\ Unwound
    /\ faults = 0
    /\ workload = pre
    /\ Len(SelectSeq(cmds, FirstPass)) = 3
    /\ \E i \in 1..Len(cmds) : cmds[i].cmd = "set triggers" /\ cmds[i].changed

\* the objects of the cluster that this session created
SessionObjects == {o \in objs : o.by = "session"}

\* C6: after a successful create_new_deployment the returned session label
\* is non-empty, the Deployment (metadata, selector and pod template) and
\* the Service, when there is one, carry it, and the delete-by-label
\* cleanup selects exactly the objects the call created.
C6_CreatedObjectsCarryLabel ==
    (cfg.mode = "create_new" /\ result.status = "ok" /\ pass = 0) =>
        /\ result.run_id # <<>>
        /\ \E o \in SessionObjects : o.kind = "deploy" /\ o.name = result.name
        /\ expose # {} => \E o \in SessionObjects : o.kind = "svc"
        /\ \A o \in SessionObjects :
              /\ TelLabel(result.run_id) \in o.labels
              /\ TelLabel(result.run_id) \in o.selector
              /\ o.kind = "deploy" => TelLabel(result.run_id) \in o.podLabels
        /\ remove_existing_deployment(objs, result.run_id) = objs \ SessionObjects

\* C6 witness: a Deployment and a Service were created next to an object of
\* another session.
C6_Witness ==
    /\ cfg.mode = "create_new"
    /\ result.status = "ok"
    /\ pass = 0
    /\ Cardinality(SessionObjects) = 2
    /\ objs \ SessionObjects # {}

\* C7: create_new_deployment issues kubectl expose if and only if the
\* exposure set has a remote port, only after kubectl create succeeded, and
\* with every remote port exactly once in strictly descending order.
C7_ExposeDescendingOnce ==
    cfg.mode = "create_new" =>
        /\ \A i \in 1..Len(cmds) :
              cmds[i].cmd = "expose" =>
                  /\ expose # {}
                  /\ i > 1 /\ cmds[i - 1].cmd = "create" /\ cmds[i - 1].res = "ok"
                  /\ \A j \in 1..Len(cmds) : cmds[j].cmd = "expose" => j = i
                  /\ Items(cmds[i].arg) = expose
                  /\ Len(cmds[i].arg) = Cardinality(expose)
                  /\ \A k \in 1..(Len(cmds[i].arg) - 1) : cmds[i].arg[k] > cmds[i].arg[k + 1]
        /\ (pc # "create_new:288" /\ \E i \in 1..Len(cmds) :
                                        cmds[i].cmd = "create" /\ cmds[i].res = "ok") =>
              ((\E i \in 1..Len(cmds) : cmds[i].cmd = "expose") <=> expose # {})

\* C7 witness: a Service exposing three ports was created.
C7_Witness ==
    /\ cfg.mode = "create_new"
    /\ result.status = "ok"
    /\ Cardinality(expose) = 3
    /\ Last(cmds).cmd = "expose"
    /\ Last(cmds).arg = <<8080, 443, 80>>

\* The failures of the provisioner: runner.fail with the command's stderr,
\* the RuntimeError of new_swapped_deployment and the CalledProcessError of
\* a check_call that nothing catches.
ProvisionError == {"runner.fail", "RuntimeError", "CalledProcessError"}

\* C8: when kubectl expose fails, create_new_deployment fails through
\* runner.fail with the command's stderr, the Deployment it created is still
\* there when it fails (it issues no delete of its own) and the
\* delete-by-label cleanup is registered; the cleanup is registered as well
\* when kubectl create fails.
C8_ExposeFailureLeavesDeployment ==
    (cfg.mode = "create_new" /\ pass = 0 /\ Len(cmds) > 0 /\ Last(cmds).res # "ok") =>
        /\ Last(cmds).cmd = "expose" =>
              /\ result.status = "failed"
              /\ result.exc = "runner.fail" /\ result.exc \in ProvisionError
              /\ result.msg = <<"Failed to expose deployment", cfg.deployment,
                                Last(cmds).res>>
              /\ \E o \in SessionObjects : o.kind = "deploy" /\ o.name = cfg.deployment
              /\ cmds[Len(cmds) - 1].cmd = "create"
              /\ Registered = {"remove_existing_deployment"}
              /\ cleanups[1].arg = cfg.run_id
        /\ Last(cmds).cmd = "create" =>
              /\ result.status = "failed"
              /\ result.exc = "runner.fail"
              /\ result.msg = <<"Failed to create deployment", cfg.deployment,
                                Last(cmds).res>>
              /\ Registered = {"remove_existing_deployment"}

\* C8 witness: kubectl expose was failed by the environment after the
\* Deployment was created.
C8_Witness ==
    /\ cfg.mode = "create_new"
    /\ pass = 0
    /\ Len(cmds) = 3
    /\ Last(cmds).cmd = "expose"
    /\ Last(cmds).res = "Forbidden"
    /\ result.status = "failed"
    /\ SessionObjects # {}

\* no container of the fetched descriptor has the name to update
TargetMissing ==
    \A i \in 1..Len(deployment_json.containers) :
        deployment_json.containers[i].name # container

\* C9: new_swapped_deployment fails whenever no container of the pod
\* template has the name to update, whatever the number of containers: it
\* returns no descriptor, and both supplant_deployment and
\* swap_deployment_openshift then end with that RuntimeError, with no
\* derived descriptor built or submitted.
C9_MissingContainerFails ==
    (cfg.mode \in {"supplant", "openshift"} /\ deployment_json # NoJson) =>
        /\ \A target \in {"app", "side", "ghost"} :
              LET r == new_swapped_deployment(deployment_json, target, cfg.run_id, expose,
                          cfg.service_account, cfg.custom_nameserver, cfg.ocp_env,
                          cfg.cluster_is_openshift)
              IN (\A i \in 1..Len(deployment_json.containers) :
                      deployment_json.containers[i].name # target)
                   => (~r.found /\ r.json = NoJson)
        /\ (/\ container # ""
            /\ TargetMissing
            /\ pc \notin {"supplant:358", "openshift:568", "openshift:572"}) =>
              /\ result.status = "failed"
              /\ result.exc = "RuntimeError" /\ result.exc \in ProvisionError
              /\ new_deployment_json = NoJson
              /\ \A i \in 1..Len(cmds) : cmds[i].cmd \notin {"apply", "replace"}
                                           \/ cmds[i].pass >= 1

\* C9 witness: the OpenShift variant ended with the RuntimeError for a
\* template of two containers.
C9_Witness ==
    /\ cfg.mode = "openshift"
    /\ result.exc = "RuntimeError"
    /\ container = "ghost"
    /\ Len(deployment_json.containers) = 2

\* C10: when kubectl apply of the derived Deployment fails,
\* supplant_deployment fails, the original Deployment has not been scaled
\* down and no resize_original cleanup is registered; kubectl scale is
\* issued only after kubectl apply has succeeded.
C10_ApplyFailureBeforeScale ==
    cfg.mode = "supplant" =>
        /\ \A i \in 1..Len(cmds) :
              (cmds[i].cmd = "apply" /\ cmds[i].res # "ok") =>
                  /\ result.status = "failed"
                  /\ result.exc = "CalledProcessError" /\ result.exc \in ProvisionError
                  /\ result.msg = <<cmds[i].res>>
                  /\ workload.replicas = pre.replicas
                  /\ "resize_original" \notin Registered
                  /\ \A j \in 1..Len(cmds) : cmds[j].cmd # "scale"
        /\ \A i \in 1..Len(cmds) :
              (cmds[i].cmd = "scale" /\ cmds[i].pass = 0) =>
                  \E j \in 1..(i - 1) : cmds[j].cmd = "apply" /\ cmds[j].res = "ok"

\* C10 witness: kubectl apply was failed by the environment in a supplant
\* of a Deployment that had replicas.
C10_Witness ==
    /\ cfg.mode = "supplant"
    /\ pass = 0
    /\ Len(cmds) > 0
    /\ Last(cmds).cmd = "apply"
    /\ Last(cmds).res = "Forbidden"
    /\ pre.replicas > 0
    /\ result.status = "failed"

-----------------------------------------------------------------------------
(* Properties of the functions called on their own (SpecFn) *)

\* C11: whatever subset of args, livenessProbe, readinessProbe, workingDir,
\* lifecycle the container to update has, new_swapped_deployment succeeds
\* and that container has none of the five in the result.
C11_UnneededFieldsDropped ==
    (cfg.fn = "new_swapped_deployment" /\ pc = "done") =>
        LET old == cfg.old_deployment.containers
            i == FindContainer(old, cfg.container_to_update)
        IN i # 0 =>
              /\ result.status = "ok"
              /\ Len(new_deployment_json.containers) = Len(old)
              /\ new_deployment_json.containers[i].name = cfg.container_to_update
              /\ new_deployment_json.containers[i].fields \cap Unneeded = {}

\* C11 witness: the container had lifecycle but not args, and lost it.
C11_Witness ==
    /\ cfg.fn = "new_swapped_deployment"
    /\ pc = "done"
    /\ Len(cfg.old_deployment.containers) = 2
    /\ cfg.old_deployment.containers[2].fields = {"readinessProbe", "lifecycle"}
    /\ new_deployment_json.containers[2].fields = {}

\* the override values of the three sets, as given (in any case)
AlwaysValues == {"true", "on", "yes", "1", "always", "ALWAYS", "Yes", "True", "ON"}
NeverValues == {"false", "off", "no", "0", "never", "Never", "NO", "False", "Off"}

\* the decision of section 4.1.1
ReferenceImage(override, is_openshift, privileged) ==
    CASE override \in AlwaysValues -> TELEPRESENCE_REMOTE_IMAGE_OCP
      [] override \notin AlwaysValues /\ override \notin NeverValues /\ is_openshift
            -> TELEPRESENCE_REMOTE_IMAGE_OCP
      [] override \notin AlwaysValues /\ ~(override \notin NeverValues /\ is_openshift)
            /\ privileged -> TELEPRESENCE_REMOTE_IMAGE_PRIV
      [] OTHER -> TELEPRESENCE_REMOTE_IMAGE

\* C12: for every override value, cluster flag and exposure set
\* get_image_name returns the image of the reference decision; a value
\* that is in none of the three sets gives what auto gives, and there is no
\* failure.
C12_ImageSelection ==
    (cfg.fn = "get_image_name" /\ pc = "done") =>
        LET override == IF cfg.environ = {} THEN "auto"
                        ELSE CHOOSE v \in cfg.environ : TRUE
            privileged == \E p \in cfg.expose : p < PrivilegedBelow
        IN /\ result.status = "ok"
           /\ result.name = ReferenceImage(override, cfg.cluster_is_openshift, privileged)
           /\ override \in AlwaysValues => result.name = TELEPRESENCE_REMOTE_IMAGE_OCP
           /\ override \in {"maybe", "Maybe", "2", ""} =>
                 result.name = ReferenceImage("auto", cfg.cluster_is_openshift, privileged)

\* C12 witness: "never" on an OpenShift cluster with a privileged port gave
\* the privileged image.
C12_Witness ==
    /\ cfg.fn = "get_image_name"
    /\ pc = "done"
    /\ cfg.environ = {"Never"}
    /\ cfg.cluster_is_openshift
    /\ cfg.expose = {PrivilegedBelow - 1}
    /\ result.name = TELEPRESENCE_REMOTE_IMAGE_PRIV

\* C13: a derived name that is produced is at most NameLimit characters
\* long, ends with "-" and the whole session id, and begins with a prefix of
\* the workload name; one is produced for a name of 60 characters and a
\* session id of 10.
C13_DerivedNameBounded ==
    (cfg.fn = "new_name" /\ pc = "done") =>
        /\ result.status = "ok" =>
              /\ Len(result.name) <= NameLimit
              /\ \E k \in 0..Len(cfg.name) :
                    result.name = SubSeq(cfg.name, 1, k) \o <<"-">> \o cfg.run_id
        /\ (Len(cfg.name) = 60 /\ Len(cfg.run_id) = 10) => result.status = "ok"

\* C13 witness: the name of 60 characters was cut to 39 for a session id of
\* 10 characters.
C13_Witness ==
    /\ cfg.fn = "new_name"
    /\ pc = "done"
    /\ Len(cfg.name) = 60
    /\ Len(cfg.run_id) = 10
    /\ result.status = "ok"
    /\ Len(result.name) = 50
    /\ result.name[40] = "-"

-----------------------------------------------------------------------------
(* Properties of proxy mode *)

\* the log entries of a step
Logged(name) == {i \in 1..Len(cmds) : cmds[i].cmd = name}

\* a TCP row in state ESTABLISHED, as the spec describes it
IsEstablishedTcp(row) ==
    /\ Len(row) > 0 /\ row[1] \in {Word("tcp"), Word("tcp6")}
    /\ \E i \in 1..Len(row) : row[i] = Word("ESTABLISHED")

EstablishedTcpRows == {i \in 1..Len(cfg.netstat) : IsEstablishedTcp(cfg.netstat[i])}

\* such a row with fewer than five columns or an endpoint that is not
\* exactly address:port
IsMalformed(row) ==
    \/ Len(row) < 5
    \/ Len(row[4]) # 2
    \/ Len(row[5]) # 2

MalformedRows == {i \in EstablishedTcpRows : IsMalformed(cfg.netstat[i])}

RouterLaunched == \E i \in 1..Len(procs) : procs[i].name = "sshuttle"

\* C14: with at least one exclude CIDR the exclusion list is non-empty when
\* the rows have been scanned, even with no ESTABLISHED row; with no such row
\* and no exclude CIDR the scan ends in an AssertionError and the router is
\* never launched.
C14_ExclusionsNonEmptyOrRaise ==
    /\ (cfg.exclude_cidrs # <<>> /\ pc \notin {"proxy:81", "proxy:84", "proxy:91"}
          /\ \E i \in Logged("netstat") : cmds[i].res = "ok")
         => /\ exclusions # <<>>
            /\ \A i \in Logged("assert") : cmds[i].res = "ok"
    /\ (cfg.exclude_cidrs = <<>> /\ EstablishedTcpRows = {})
         => /\ ~RouterLaunched
            /\ Logged("Popen") = {}
            /\ \A i \in Logged("assert") :
                   /\ cmds[i].res = "AssertionError"
                   /\ pc = "exited"
                   /\ result.status = "failed" /\ result.exc = "AssertionError"
            /\ (pc = "exited" /\ \E i \in Logged("netstat") : cmds[i].res = "ok")
                 => Logged("assert") # {}

\* no row and no CIDR: the assertion has failed
C14_Witness ==
    /\ cfg.exclude_cidrs = <<>> /\ EstablishedTcpRows = {} /\ Len(cfg.netstat) = MaxLines
    /\ pc = "exited" /\ result.exc = "AssertionError"
    /\ procs = <<>>

\* C15: a malformed TCP ESTABLISHED row that the scan reaches ends the run:
\* the raw row is written, the exception propagates, no later row is looked
\* at, and neither the router nor a tunnel is started.
C15_MalformedRowAborts ==
    \A i \in MalformedRows :
        scan >= i
        => /\ scan = i
           /\ pc = "exited"
           /\ result.status = "failed"
           /\ result.exc \in {"IndexError", "ValueError"}
           /\ Cardinality(Logged("write")) = 1
           /\ \A k \in Logged("write") :
                  /\ k = Len(cmds)
                  /\ cmds[k].arg = <<"Failed on line: ", cfg.netstat[i]>>
           /\ procs = <<>>
           /\ Logged("Popen") = {} /\ Logged("expose_local_services") = {}

\* a well-formed row, then a row without the peer's port
C15_Witness ==
    /\ Len(cfg.netstat) = 2
    /\ cfg.netstat[1] = EstablishedRow /\ cfg.netstat[2] = NoPortRow
    /\ scan = 2 /\ pc = "exited" /\ result.exc = "ValueError"
    /\ cmds[Len(cmds)].cmd = "write"

\* the order of the steps of proxy mode
ProxySteps == <<"sshd", "ssh.wait", "netstat", "assert", "Popen", "expose_local_services", "wait_for_exit">>

\* the log without the diagnostic writes
StepsLogged == SelectSeq(cmds, LAMBDA c : c.cmd # "write")

\* C16: the steps run in the order sshd, SSH wait, exclusions, router,
\* exposure, wait for exit, each only after the one before it succeeded; the
\* router's command line is the exclusions followed by the inclusions; the
\* router is not launched when sshd or the SSH wait failed.
C16_ProxyStepOrder ==
    /\ Len(StepsLogged) <= Len(ProxySteps)
    /\ \A i \in 1..Len(StepsLogged) :
          /\ StepsLogged[i].cmd = ProxySteps[i]
          /\ i < Len(StepsLogged) => StepsLogged[i].res = "ok"
    /\ \A i \in Logged("Popen") :
          /\ exclusions # <<>>
          /\ cmds[i].arg = get_sshuttle_command \o exclusions \o cfg.include_cidrs
    /\ RouterLaunched => \E i \in Logged("Popen") : cmds[i].res = "ok"
    /\ (\E i \in Logged("sshd") \cup Logged("ssh.wait") : cmds[i].res # "ok")
         => ~RouterLaunched /\ procs = <<>> /\ pc = "exited" /\ result.status = "failed"
    /\ (pc = "proxy:109" \/ RouterLaunched)
         => /\ \E i \in Logged("sshd") : cmds[i].res = "ok"
            /\ \E i \in Logged("ssh.wait") : cmds[i].res = "ok"

\* a run through all the steps, with rows and an exclude CIDR
C16_Witness ==
    /\ pc = "exited" /\ result.status = "ok"
    /\ Len(StepsLogged) = Len(ProxySteps)
    /\ cfg.exclude_cidrs # <<>> /\ EstablishedTcpRows # {}
    /\ Len(procs) = 2

\* C17: proxy mode does not end, once the router is launched, while the
\* router or a tunnel is running, and the first non-zero exit status among
\* them is its failure.
C17_WaitsForAllProcesses ==
    (pc = "exited" /\ RouterLaunched)
    => /\ \A i \in 1..Len(procs) : ~procs[i].running
       /\ LET bad == {i \in 1..Len(procs) : procs[i].code # 0}
          IN IF bad = {} THEN result.status = "ok"
             ELSE /\ result.status = "failed"
                  /\ \E i \in bad :
                        /\ \A j \in bad : procs[i].order <= procs[j].order
                        /\ result.msg = <<procs[i].code>>

\* the tunnel failed first, the router second, with another status
C17_Witness ==
    /\ pc = "exited" /\ Len(procs) = 2
    /\ procs[2].code = 2 /\ procs[2].order = 1
    /\ procs[1].code = 1 /\ procs[1].order = 2
    /\ result.msg = <<2>>

-----------------------------------------------------------------------------
(* Properties of wait mode *)

\* the exit code of the process
ExitCode == IF result.status = "ok" THEN 0 ELSE result.msg.code

FailureMessage == "Failed to connect to proxy in remote cluster."

\* C18: the exit with code 100 comes only after a successful lookup followed
\* by the settle sleep; a run whose lookups all failed ends with the
\* diagnostic message, with a code that is neither 100 nor 0.
C18_ReadyOnlyAfterLookup ==
    pc = "exited"
    => /\ result.status = "failed" /\ result.exc = "SystemExit"
       /\ ExitCode # 0
       /\ ExitCode = ReadyCode
            => /\ lookup.res = "ok"
               /\ now >= lookup.end + SettleSeconds * TicksPerSecond
               /\ result.msg.message = ""
       /\ lookup.res # "ok"
            => /\ ExitCode # ReadyCode
               /\ result.msg.message = FailureMessage

\* ready after at least one failed attempt
C18_Witness ==
    /\ pc = "exited" /\ ExitCode = ReadyCode
    /\ lookup.res = "ok" /\ lookup.at > start
    /\ now = lookup.end + SettleSeconds * TicksPerSecond

\* C19: wait mode terminates; no lookup attempt starts 30 seconds or more
\* after the start, and when the lookups all fail the failure exit is taken
\* once 30 seconds have elapsed.
C19_WaitTerminates ==
    /\ <>(pc = "exited")
    /\ [](lookup.res # "" => lookup.at - start < Ceiling)
    /\ []((pc = "exited" /\ lookup.res # "ok")
            => /\ now - start >= Ceiling
               /\ now - start < Ceiling + MaxLookupTicks + RetrySleep
               /\ result.msg.message = FailureMessage)

\* the failure exit after the last attempt began just inside the ceiling
C19_Witness ==
    /\ pc = "exited" /\ lookup.res = "gaierror"
    /\ lookup.at - start = Ceiling - 1
    /\ now - start >= Ceiling

-----------------------------------------------------------------------------
(* Properties of the existing-workload operations *)

Existing == cfg.mode \in {"existing", "existing_openshift"}

\* the container the call identifies: the one named after the colon of the
\* reference, the first one otherwise (0: there is none)
IdentifiedContainer ==
    LET colon == {i \in 1..Len(cfg.deployment) : cfg.deployment[i] = ":"}
    IN IF colon = {} \/ cfg.deployment[Len(cfg.deployment)] = ":"
       THEN IF Len(pre.containers) = 0 THEN 0 ELSE 1
       ELSE IF \E i \in 1..Len(pre.containers) :
                  pre.containers[i].name = cfg.deployment[Len(cfg.deployment)]
            THEN CHOOSE i \in 1..Len(pre.containers) :
                    /\ pre.containers[i].name = cfg.deployment[Len(cfg.deployment)]
                    /\ \A j \in 1..(i - 1) : pre.containers[j].name # pre.containers[i].name
            ELSE 0

\* C20: existing_deployment and existing_deployment_openshift issue no
\* mutating command and register no cleanup, whether they succeed or fail;
\* on success the result is the reference as given with no run id, and the
\* exposure set is what it was plus the TCP ports of the identified
\* container; when the fetch fails the call fails through runner.fail
\* ("Failed to find ...") and the exposure set is as it was.
C20_ExistingOnlyReads ==
    Existing
    => /\ \A i \in 1..Len(cmds) : cmds[i].cmd = "get" /\ ~cmds[i].changed
       /\ Len(cmds) <= 1
       /\ cleanups = <<>>
       /\ workload = pre /\ derived = {} /\ objs = {}
       /\ result.status = "ok"
            => /\ result.name = cfg.deployment
               /\ result.run_id = <<>>
               /\ cmds[1].res = "ok"
               /\ expose = cfg.expose \cup
                      (IF IdentifiedContainer = 0 THEN {}
                       ELSE {p.containerPort : p \in
                               {q \in pre.containers[IdentifiedContainer].ports :
                                    q.protocol = "TCP"}})
       /\ result.status = "failed" => expose = cfg.expose
       /\ (cmds # <<>> /\ cmds[1].res # "ok")
            => /\ result.status = "failed"
               /\ result.exc = "runner.fail"
               /\ result.msg[1] \in {"Failed to find deployment", "Failed to find deploymentconfig"}
               /\ expose = cfg.expose
       /\ pc = "returned" => result.status # "running"

\* a DeploymentConfig whose first container has a TCP and a UDP port
C20_Witness ==
    /\ cfg.mode = "existing_openshift" /\ pc = "returned" /\ result.status = "ok"
    /\ cfg.expose = {8080} /\ expose = {80, 8080}
    /\ Len(pre.containers) = 2
    /\ cleanups = <<>>

-----------------------------------------------------------------------------
(* Properties of the transform within supplant *)

\* the descriptor the transform was given, as the cluster had it
Fetched == IF cfg.mode = "openshift" THEN [pre EXCEPT !.triggers = {}] ELSE pre

\* the position of the target container in the original descriptor
TargetAt ==
    IF \E i \in 1..Len(Fetched.containers) : Fetched.containers[i].name = container
    THEN CHOOSE i \in 1..Len(Fetched.containers) :
            /\ Fetched.containers[i].name = container
            /\ \A j \in 1..(i - 1) : Fetched.containers[j].name # container
    ELSE 0

\* C21: the transform leaves the descriptor it was given unchanged, so the
\* replica count registered with resize_original is the one the workload
\* had before the session; in its output every container but the target is
\* the original container, and apart from the target container only the
\* replica count (1), the telepresence label of the workload and of the pod
\* template and, when one is given, the service account differ.
C21_TransformKeepsOriginal ==
    (cfg.mode \in {"supplant", "openshift"} /\ new_deployment_json # NoJson)
    => /\ deployment_json = Fetched
       /\ \A i \in 1..Len(cleanups) :
             cleanups[i].fn = "resize_original" => cleanups[i].arg = pre.replicas
       /\ TargetAt # 0
       /\ new_deployment_json.replicas = 1
       /\ new_deployment_json.labels \ {<<"telepresence", cfg.run_id>>}
            = {l \in Fetched.labels : l[1] # "telepresence"}
       /\ new_deployment_json.podLabels \ {<<"telepresence", cfg.run_id>>}
            = {l \in Fetched.podLabels : l[1] # "telepresence"}
       /\ <<"telepresence", cfg.run_id>> \in
              new_deployment_json.labels \cap new_deployment_json.podLabels
       /\ new_deployment_json.serviceAccountName =
              (IF cfg.service_account # "" THEN cfg.service_account
               ELSE Fetched.serviceAccountName)
       /\ new_deployment_json.triggers = Fetched.triggers
       /\ Len(new_deployment_json.containers) = Len(Fetched.containers)
       /\ \A j \in 1..Len(Fetched.containers) :
             IF j = TargetAt
             THEN /\ new_deployment_json.containers[j].name = container
                  /\ new_deployment_json.containers[j] # Fetched.containers[j]
             ELSE new_deployment_json.containers[j] = Fetched.containers[j]

\* the target is the second of two containers, the other one has fields the
\* transform would drop, and the cleanup is registered with two replicas
C21_Witness ==
    /\ cfg.mode = "supplant" /\ pre.replicas = MaxReplicas
    /\ new_deployment_json.replicas = 1
    /\ TargetAt = 2
    /\ new_deployment_json.containers[1].fields # {}
    /\ \E i \in 1..Len(cleanups) :
          cleanups[i].fn = "resize_original" /\ cleanups[i].arg = MaxReplicas

\* the session has scaled the original workload down to zero
ScaledToZero == workload.replicas = 0 /\ pre.replicas > 0

\* the derived Deployment is in the cluster
DerivedExists == \E d \in derived : d.name = new_deployment_json.name

\* C22: in supplant_deployment and in an unwinding in reverse order of
\* registration whose commands succeed, the original Deployment is at zero
\* replicas through the session only while the derived Deployment exists:
\* kubectl scale to 0 comes after a successful kubectl apply, and the
\* unwinding restores the replica count before it deletes the derived
\* Deployment.
C22_ZeroOnlyWhileDerivedExists ==
    (cfg.mode = "supplant" /\ NoCleanupFault)
    => /\ ScaledToZero => DerivedExists
       /\ \A i \in 1..Len(cmds) :
             (cmds[i].cmd = "scale" /\ cmds[i].arg = 0 /\ cmds[i].pass = 0
                /\ cmds[i].res = "ok")
             => \E j \in 1..(i - 1) :
                   cmds[j].cmd = "apply" /\ cmds[j].res = "ok" /\ cmds[j].pass = 0
       /\ \A i \in 1..Len(cmds) :
             (cmds[i].cmd = "delete" /\ cmds[i].pass = 1
                /\ "resize_original" \in Registered)
             => \E j \in 1..(i - 1) :
                   /\ cmds[j].cmd = "scale" /\ cmds[j].pass = 1
                   /\ cmds[j].arg = pre.replicas /\ cmds[j].res = "ok"

\* the unwinding has restored the replicas and has yet to delete the derived
\* Deployment
C22_Witness ==
    /\ cfg.mode = "supplant" /\ pc = "cleanup" /\ pass = 1 /\ ui = 1
    /\ pre.replicas = MaxReplicas /\ workload.replicas = MaxReplicas
    /\ DerivedExists
    /\ \E i \in 1..Len(cmds) : cmds[i].cmd = "scale" /\ cmds[i].arg = 0 /\ cmds[i].changed

\* the container named in the call is not in the workload
NamedContainerMissing ==
    /\ cfg.container_arg # ""
    /\ \A i \in 1..Len(pre.containers) : pre.containers[i].name # cfg.container_arg

\* C23: when the container to update is not in the Deployment,
\* supplant_deployment issues no mutating command and registers no
\* cleanup: the cluster and the cleanup registry stay as they were before
\* the call, the exposure set too, and once the Deployment has been fetched
\* the call ends with the RuntimeError of the transform.
C23_MissingContainerLeavesNoTrace ==
    (cfg.mode = "supplant" /\ NamedContainerMissing)
    => /\ \A i \in 1..Len(cmds) : cmds[i].cmd \notin Mutating /\ ~cmds[i].changed
       /\ cleanups = <<>>
       /\ workload = pre /\ derived = {} /\ objs = {}
       /\ expose = cfg.expose
       /\ new_deployment_json = NoJson
       /\ (cmds # <<>> /\ cmds[1].res = "ok" /\ pc # "supplant:358")
            => /\ result.status = "failed"
               /\ result.exc = "RuntimeError"
               /\ Len(cmds) = 1

\* the call named a container that the Deployment, which has a container
\* with a TCP port, does not have
C23_Witness ==
    /\ cfg.mode = "supplant" /\ cfg.container_arg = "ghost"
    /\ pc = "returned" /\ result.exc = "RuntimeError"
    /\ \E i \in 1..Len(pre.containers) : TcpPorts(pre.containers[i]) # {}
    /\ pre.replicas = MaxReplicas
    /\ expose = cfg.expose /\ cleanups = <<>>

====
